---------------------------- MODULE Spec2Model ----------------------------
(***************************************************************************)
(* A model of the cleaning and entity-resolution core of the BTL agency    *)
(* scraper: DataCleaner (src/data_cleaner.py), the text helpers            *)
(* (src/helpers.py), DuplicateHandler (src/duplicate_handler.py),         *)
(* process_data with filter_by_revenue (src/main.py), and safe_request     *)
(* (src/helpers.py).                                                       *)
(*                                                                         *)
(* Text.  A Python str is a sequence of one-character tokens.  An ASCII    *)
(* character is the token of itself.  A Cyrillic letter is written as its  *)
(* Latin transliteration followed by "*", upper case for an upper-case     *)
(* letter: "K*" "r*" "e*" "o*" "n*" is the five-letter name Kreon in       *)
(* Cyrillic, "o*" "o*" "o*" the legal form OOO in lower case.  The         *)
(* guillemets are the tokens "<<" and ">>".                                *)
(*                                                                         *)
(* Records.  A Python dict is a function from its keys (strings) to its    *)
(* values.  The keys revenue, employees and revenue_year hold numbers, all *)
(* other keys hold text, as in the output of                               *)
(* DataCleaner.clean_single_company.                                       *)
(***************************************************************************)
EXTENDS Integers, Sequences, FiniteSets, TLC

VARIABLES
    pc,                 \* position of the operation under analysis
    companies,          \* remove_duplicates: the input list
    inn_groups,         \* remove_duplicates: groups by tax id, in dict order
    name_groups,        \* remove_duplicates: fuzzy groups of the tax-id-less
    unique_companies,   \* remove_duplicates: the returned list
    raw,                \* clean_single_company: the raw record
    cleaned,            \* clean_single_company: the dict built so far
    result,             \* clean_single_company: the returned value
    revenue_in,         \* _clean_revenue: the argument
    revenue_out,        \* _clean_revenue: the returned value
    arg,                \* a function of one record or value: its arguments
    ret,                \* a function of one record or value: what it returns
    cleaned_companies,  \* process_data: the list after clean_companies_data
    relevant_companies, \* process_data: the list after filter_by_relevance
    final_companies,    \* process_data: the list after filter_by_revenue
    stats,              \* process_data: the dict of get_duplicate_statistics
    attempt,            \* safe_request: the loop variable
    responses           \* safe_request: what requests.get gave, call by call

vars == <<pc, companies, inn_groups, name_groups, unique_companies,
          raw, cleaned, result, revenue_in, revenue_out, arg, ret,
          cleaned_companies, relevant_companies, final_companies, stats,
          attempt, responses>>

dedupVars == <<companies, inn_groups, name_groups, unique_companies>>
cleanVars == <<raw, cleaned, result>>
revenueVars == <<revenue_in, revenue_out>>
callVars == <<arg, ret>>
pipelineVars == <<cleaned_companies, relevant_companies, final_companies, stats>>
requestVars == <<attempt, responses>>

\* the variables of the operations that are not under analysis
NoCall == arg = <<>> /\ ret = <<>>
NoPipeline ==
    /\ cleaned_companies = <<>>
    /\ relevant_companies = <<>>
    /\ final_companies = <<>>
    /\ stats = <<>>
NoRequest == attempt = 0 /\ responses = <<>>

-----------------------------------------------------------------------------
(* Characters *)

Whitespace == {" ", "\t", "\n"}

Digits == {"0", "1", "2", "3", "4", "5", "6", "7", "8", "9"}

LowerLetters ==
    <<"a", "b", "c", "d", "e", "f", "g", "h", "i", "j", "k", "l", "m", "n", "o", "p",
      "q", "r", "s", "t", "u", "v", "w", "x", "y", "z", "a*", "b*", "v*", "g*", "d*", "e*",
      "zh*", "z*", "i*", "j*", "k*", "l*", "m*", "n*", "o*", "p*", "r*", "s*", "t*", "u*", "f*", "h*",
      "c*", "ch*", "sh*", "sch*", "hd*", "y*", "sf*", "eh*", "yu*", "ya*">>

UpperLetters ==
    <<"A", "B", "C", "D", "E", "F", "G", "H", "I", "J", "K", "L", "M", "N", "O", "P",
      "Q", "R", "S", "T", "U", "V", "W", "X", "Y", "Z", "A*", "B*", "V*", "G*", "D*", "E*",
      "ZH*", "Z*", "I*", "J*", "K*", "L*", "M*", "N*", "O*", "P*", "R*", "S*", "T*", "U*", "F*", "H*",
      "C*", "CH*", "SH*", "SCH*", "HD*", "Y*", "SF*", "EH*", "YU*", "YA*">>

Range(s) == {s[i] : i \in 1..Len(s)}

\* str.lower() on one character
LowerMap ==
    [c \in Range(UpperLetters) |->
        LowerLetters[CHOOSE i \in 1..Len(UpperLetters) : UpperLetters[i] = c]]

Lower(c) == IF c \in DOMAIN LowerMap THEN LowerMap[c] ELSE c

\* the regular expression classes \w and \s
IsWordChar(c) ==
    c \in Range(LowerLetters) \cup Range(UpperLetters) \cup Digits \cup {"_"}

IsSpace(c) == c \in Whitespace

-----------------------------------------------------------------------------
(* Text operations of Python's str and re *)

MapChars(F(_), s) == [i \in 1..Len(s) |-> F(s[i])]

\* str.lower()
ToLower(s) == MapChars(Lower, s)

SetMax(S) == CHOOSE x \in S : \A y \in S : y <= x
SetMin(S) == CHOOSE x \in S : \A y \in S : x <= y

\* the indices of the characters of s that are not whitespace
NonSpaceAt(s) == {i \in 1..Len(s) : ~IsSpace(s[i])}

\* str.lstrip(), str.rstrip()
LStrip(s) ==
    IF NonSpaceAt(s) = {} THEN <<>> ELSE SubSeq(s, SetMin(NonSpaceAt(s)), Len(s))

RStrip(s) ==
    IF NonSpaceAt(s) = {} THEN <<>> ELSE SubSeq(s, 1, SetMax(NonSpaceAt(s)))

\* str.strip()
Strip(s) == RStrip(LStrip(s))

\* s.startswith(p)
StartsWith(s, p) == Len(p) <= Len(s) /\ SubSeq(s, 1, Len(p)) = p

\* p in s
Contains(s, p) ==
    \E i \in 0..(Len(s) - Len(p)) : SubSeq(s, i + 1, i + Len(p)) = p

\* s[n:]
Drop(s, n) == SubSeq(s, n + 1, Len(s))

\* s.replace(p, ''): every non-overlapping occurrence of p, left to right
RECURSIVE Remove(_, _)
Remove(s, p) ==
    LET at == {i \in 1..(Len(s) - Len(p) + 1) : SubSeq(s, i, i + Len(p) - 1) = p}
        first == CHOOSE i \in at : \A j \in at : i <= j
    IN  IF p = <<>> \/ at = {} THEN s
        ELSE SubSeq(s, 1, first - 1) \o Remove(Drop(s, first + Len(p) - 1), p)

\* re.sub('[class]', '', s)
DeleteChars(InClass(_), s) == SelectSeq(s, LAMBDA c : ~InClass(c))

\* re.sub('[class]+', ' ', s): each maximal run of the class becomes one space
RunsToSpace(InClass(_), s) ==
    LET \* <<the character is kept, what it becomes>>: the last character of
        \* a run becomes the space, the others of the run go
        marked == [i \in 1..Len(s) |->
                      IF ~InClass(s[i]) THEN <<TRUE, s[i]>>
                      ELSE <<i = Len(s) \/ ~InClass(s[i + 1]), " ">>]
        kept == SelectSeq(marked, LAMBDA m : m[1])
    IN  [i \in 1..Len(kept) |-> kept[i][2]]

\* re.sub(r'\s+', ' ', s)
CollapseSpaces(s) == RunsToSpace(IsSpace, s)

\* s.split(): the maximal runs of non-whitespace, in order
\* the word of s that starts at index i: up to the next whitespace
WordAt(s, i) ==
    SubSeq(s, i, SetMin({j \in i..Len(s) : j = Len(s) \/ IsSpace(s[j + 1])}))

Split(s) ==
    LET starts == {i \in NonSpaceAt(s) : i = 1 \/ IsSpace(s[i - 1])}
    IN  [k \in 1..Cardinality(starts) |->
            WordAt(s, CHOOSE i \in starts : Cardinality({j \in starts : j < i}) = k - 1)]

\* sep.join(parts)
RECURSIVE Join(_, _)
Join(sep, parts) ==
    IF parts = <<>> THEN <<>>
    ELSE IF Len(parts) = 1 THEN parts[1]
    ELSE parts[1] \o sep \o Join(sep, Tail(parts))

-----------------------------------------------------------------------------
(* difflib.SequenceMatcher(None, a, b).ratio().  The names compared are far *)
(* shorter than the 200 characters from which difflib's automatic junk      *)
(* heuristic applies, and no junk predicate is given.                       *)

\* length of the common run of a from i and of b from j, inside a[..ahi], b[..bhi]
RunLen(a, b, i, j, ahi, bhi) ==
    SetMax({k \in 0..SetMin({ahi - i, bhi - j}) + 1 :
               \A t \in 0..(k - 1) : a[i + t] = b[j + t]})

\* find_longest_match over a[alo..ahi] and b[blo..bhi] (both non-empty): the
\* longest common block, the earliest in a among the longest, the earliest in
\* b among those; <<i, j, k>> with k = 0 when no character is shared
FindLongestMatch(a, b, alo, ahi, blo, bhi) ==
    LET runs == [p \in (alo..ahi) \X (blo..bhi) |->
                    RunLen(a, b, p[1], p[2], ahi, bhi)]
        k == SetMax({runs[p] : p \in DOMAIN runs})
        i == SetMin({p[1] : p \in {q \in DOMAIN runs : runs[q] = k}})
        j == SetMin({p[2] : p \in {q \in DOMAIN runs : runs[q] = k /\ q[1] = i}})
    IN  IF k = 0 THEN <<alo, blo, 0>> ELSE <<i, j, k>>

\* get_matching_blocks: the total size of the matching blocks
RECURSIVE MatchingSize(_, _, _, _, _, _)
MatchingSize(a, b, alo, ahi, blo, bhi) ==
    IF alo > ahi \/ blo > bhi THEN 0
    ELSE LET m == FindLongestMatch(a, b, alo, ahi, blo, bhi)
             i == m[1]
             j == m[2]
             k == m[3]
         IN  IF k = 0 THEN 0
             ELSE k + MatchingSize(a, b, alo, i - 1, blo, j - 1)
                    + MatchingSize(a, b, i + k, ahi, j + k, bhi)

\* ratio() = 2.0 * matches / (len(a) + len(b)), as the pair <<numerator, denominator>>
SequenceRatio(a, b) ==
    <<2 * MatchingSize(a, b, 1, Len(a), 1, Len(b)), Len(a) + Len(b)>>

-----------------------------------------------------------------------------
(* DuplicateHandler: names *)

legal_forms ==
    <<<<"o*", "o*", "o*">>,
      <<"z*", "a*", "o*">>,
      <<"o*", "a*", "o*">>,
      <<"a*", "o*">>,
      <<"i*", "p*">>,
      <<"p*", "a*", "o*">>,
      <<"o*", "b*", "sch*", "e*", "s*", "t*", "v*", "o*", " ", "s*", " ", "o*", "g*", "r*", "a*", "n*", "i*", "ch*", "e*", "n*", "n*", "o*", "j*", " ", "o*", "t*", "v*", "e*", "t*", "s*", "t*", "v*", "e*", "n*", "n*", "o*", "s*", "t*", "sf*", "yu*">>,
      <<"z*", "a*", "k*", "r*", "y*", "t*", "o*", "e*", " ", "a*", "k*", "c*", "i*", "o*", "n*", "e*", "r*", "n*", "o*", "e*", " ", "o*", "b*", "sch*", "e*", "s*", "t*", "v*", "o*">>,
      <<"o*", "t*", "k*", "r*", "y*", "t*", "o*", "e*", " ", "a*", "k*", "c*", "i*", "o*", "n*", "e*", "r*", "n*", "o*", "e*", " ", "o*", "b*", "sch*", "e*", "s*", "t*", "v*", "o*">>,
      <<"a*", "k*", "c*", "i*", "o*", "n*", "e*", "r*", "n*", "o*", "e*", " ", "o*", "b*", "sch*", "e*", "s*", "t*", "v*", "o*">>,
      <<"p*", "u*", "b*", "l*", "i*", "ch*", "n*", "o*", "e*", " ", "a*", "k*", "c*", "i*", "o*", "n*", "e*", "r*", "n*", "o*", "e*", " ", "o*", "b*", "sch*", "e*", "s*", "t*", "v*", "o*">>,
      <<"i*", "n*", "d*", "i*", "v*", "i*", "d*", "u*", "a*", "l*", "sf*", "n*", "y*", "j*", " ", "p*", "r*", "e*", "d*", "p*", "r*", "i*", "n*", "i*", "m*", "a*", "t*", "e*", "l*", "sf*">>>>

\* for form in forms: name = name.replace(form, '').strip()
RECURSIVE RemoveForms(_, _)
RemoveForms(name, forms) ==
    IF forms = <<>> \/ name = <<>> THEN name
    ELSE RemoveForms(Strip(Remove(name, Head(forms))), Tail(forms))

\* the class ["'()\[\]<<>>] of the first re.sub
IsQuoteOrBracket(c) == c \in {"\"", "'", "(", ")", "[", "]", "<<", ">>"}

\* the substitution of the second re.sub, [^\w\s] -> ' ', on one character
PunctToSpace(c) == IF IsWordChar(c) \/ IsSpace(c) THEN c ELSE " "

\* the variant that keeps the legal forms in the name
NormalizeKeepingForms(name) ==
    IF name = <<>> THEN <<>>
    ELSE Strip(CollapseSpaces(MapChars(PunctToSpace,
             DeleteChars(IsQuoteOrBracket, ToLower(name)))))

NormalizeNameForComparison(name) ==
    IF name = <<>> THEN <<>>
    ELSE Strip(CollapseSpaces(MapChars(PunctToSpace,
             DeleteChars(IsQuoteOrBracket,
                 RemoveForms(ToLower(name), legal_forms)))))

\* len(words1 & words2) / len(words1 | words2), as <<numerator, denominator>>
WordSimilarity(name1, name2) ==
    LET words1 == Range(Split(name1))
        words2 == Range(Split(name2))
    IN  <<Cardinality(words1 \cap words2), Cardinality(words1 \cup words2)>>

\* the threshold parameter's default, 0.8, and the word threshold 0.6, as fractions
threshold == <<4, 5>>
word_threshold == <<3, 5>>

\* n/d >= t[1]/t[2] for d > 0
AtLeast(q, t) == q[1] * t[2] >= t[1] * q[2]

\* the variant whose ratio has to exceed the threshold
AreNamesSimilarStrict(name1, name2) ==
    IF name1 = <<>> \/ name2 = <<>> THEN FALSE
    ELSE IF name1 = name2 THEN TRUE
    ELSE IF ~AtLeast(threshold, SequenceRatio(name1, name2)) THEN TRUE
    ELSE IF Len(name1) > 5 /\ Len(name2) > 5
            /\ (Contains(name2, name1) \/ Contains(name1, name2)) THEN TRUE
    ELSE Split(name1) # <<>> /\ Split(name2) # <<>>
            /\ AtLeast(WordSimilarity(name1, name2), word_threshold)

AreNamesSimilar(name1, name2) ==
    IF name1 = <<>> \/ name2 = <<>> THEN FALSE
    ELSE IF name1 = name2 THEN TRUE
    ELSE IF AtLeast(SequenceRatio(name1, name2), threshold) THEN TRUE
    ELSE IF Len(name1) > 5 /\ Len(name2) > 5
            /\ (Contains(name2, name1) \/ Contains(name1, name2)) THEN TRUE
    ELSE Split(name1) # <<>> /\ Split(name2) # <<>>
            /\ AtLeast(WordSimilarity(name1, name2), word_threshold)

-----------------------------------------------------------------------------
(* DuplicateHandler: records *)

NumericKeys == {"revenue", "employees", "revenue_year"}

\* company.get(key, default)
Get(company, key, default) ==
    IF key \in DOMAIN company THEN company[key] ELSE default

\* bool(value) for the value held under key
Truthy(key, value) == IF key \in NumericKeys THEN value # 0 ELSE value # <<>>

\* not value or (isinstance(value, str) and not value.strip())
IsBlank(key, value) ==
    IF key \in NumericKeys THEN value = 0 ELSE Strip(value) = <<>>

\* [c for c in companies if test(c)]
RECURSIVE Filter(_, _)
Filter(Test(_), list) ==
    IF list = <<>> THEN <<>>
    ELSE IF Test(Head(list)) THEN <<Head(list)>> \o Filter(Test, Tail(list))
    ELSE Filter(Test, Tail(list))

-----------------------------------------------------------------------------
(* DuplicateHandler._group_by_inn: the dict as the sequence of its items,   *)
(* <<key, group>>, in insertion order                                       *)

InnKey(company) == Strip(Get(company, "inn", <<>>))

RECURSIVE GroupByInnFrom(_, _)
GroupByInnFrom(list, groups) ==
    IF list = <<>> THEN groups
    ELSE LET company == Head(list)
             inn == InnKey(company)
             at == {i \in 1..Len(groups) : groups[i][1] = inn}
         IN  IF inn = <<>> THEN GroupByInnFrom(Tail(list), groups)
             ELSE IF at = {}
                  THEN GroupByInnFrom(Tail(list), Append(groups, <<inn, <<company>>>>))
             ELSE LET i == CHOOSE x \in at : TRUE
                  IN  GroupByInnFrom(Tail(list),
                          [groups EXCEPT ![i] = <<inn, Append(groups[i][2], company)>>])

\* the variant that opens a group for every record with a tax id
GroupByInnNoMerge(list) ==
    LET kept == Filter(LAMBDA c : InnKey(c) # <<>>, list)
    IN  [i \in 1..Len(kept) |-> <<InnKey(kept[i]), <<kept[i]>>>>]

GroupByInn(list) == GroupByInnFrom(list, <<>>)

-----------------------------------------------------------------------------
(* DuplicateHandler._group_by_similarity *)

\* the names of the model's input records, normalized once
KnownNames ==
    {<<"K*", "r*", "e*", "o*", "n*">>,
     <<"O*", "O*", "O*", " ", "K*", "r*", "e*", "o*", "n*">>,
     <<"O*", "a*", "z*", "i*", "s*">>,
     <<"M*", "i*", "r*", " ", "P*", "r*", "o*", "m*", "o*">>,
     <<"M*", "i*", "r*", " ", "P*", "r*", "o*", "m*", "o*", " ", "G*", "r*", "u*", "p*", "p*">>,
     <<"P*", "r*", "o*", "m*", "o*", " ", "G*", "r*", "u*", "p*", "p*">>}

NormalizedNames == [n \in KnownNames |-> NormalizeNameForComparison(n)]

SimilarNames ==
    [p \in {NormalizedNames[n] : n \in KnownNames} \X {NormalizedNames[n] : n \in KnownNames}
        |-> AreNamesSimilar(p[1], p[2])]

\* self._normalize_name_for_comparison(company.get('name', ''))
ComparisonName(company) ==
    LET name == Get(company, "name", <<>>)
    IN  IF name \in DOMAIN NormalizedNames THEN NormalizedNames[name]
        ELSE NormalizeNameForComparison(name)

\* self._are_names_similar(name1, name2)
Similar(name1, name2) ==
    IF <<name1, name2>> \in DOMAIN SimilarNames THEN SimilarNames[<<name1, name2>>]
    ELSE AreNamesSimilar(name1, name2)

\* the elements of list at the indices in S, in list order
RECURSIVE AtIndices(_, _, _)
AtIndices(list, S, j) ==
    IF j > Len(list) THEN <<>>
    ELSE IF j \in S THEN <<list[j]>> \o AtIndices(list, S, j + 1)
    ELSE AtIndices(list, S, j + 1)

\* the inner loop of the variant that compares a candidate with every member
\* already in the group
RECURSIVE ChainMembers(_, _, _, _)
ChainMembers(list, j, processed, members) ==
    IF j > Len(list) THEN members
    ELSE IF j \notin processed
            /\ \E m \in members : Similar(ComparisonName(list[m]), ComparisonName(list[j]))
         THEN ChainMembers(list, j + 1, processed, members \cup {j})
    ELSE ChainMembers(list, j + 1, processed, members)

\* the variant of the inner loop that also accepts a record similar to a member
AnchorOrMemberMembers(list, i, processed) ==
    ChainMembers(list, i + 1, processed, {i})

\* the variant of the inner loop that does not skip the processed records
AnchorMembersRejoining(list, i, processed) ==
    {i} \cup {j \in (i + 1)..Len(list) :
                Similar(ComparisonName(list[i]), ComparisonName(list[j]))}

\* the inner loop: the later unprocessed records similar to record i, the anchor
AnchorMembers(list, i, processed) ==
    {i} \cup {j \in (i + 1)..Len(list) :
                j \notin processed
                /\ Similar(ComparisonName(list[i]), ComparisonName(list[j]))}

RECURSIVE GroupBySimilarityFrom(_, _, _, _)
GroupBySimilarityFrom(list, i, processed, groups) ==
    IF i > Len(list) THEN groups
    ELSE IF i \in processed THEN GroupBySimilarityFrom(list, i + 1, processed, groups)
    ELSE LET members == AnchorMembers(list, i, processed)
         IN  GroupBySimilarityFrom(list, i + 1, processed \cup members,
                 Append(groups, AtIndices(list, members, 1)))

GroupBySimilarity(list) == GroupBySimilarityFrom(list, 1, {}, <<>>)

-----------------------------------------------------------------------------
(* DuplicateHandler._select_base_company *)

rrar_2025 == <<"r", "r", "a", "r", "_", "2", "0", "2", "5">>
marketing_tech == <<"m", "a", "r", "k", "e", "t", "i", "n", "g", "_", "t", "e", "c", "h">>
fns_open_data == <<"f", "n", "s", "_", "o", "p", "e", "n", "_", "d", "a", "t", "a">>
rusprofile == <<"r", "u", "s", "p", "r", "o", "f", "i", "l", "e">>
list_org == <<"l", "i", "s", "t", "_", "o", "r", "g">>

\* source_priority.get(source, 0)
SourcePriority(source) ==
    CASE source = fns_open_data -> 5
      [] source = marketing_tech -> 4
      [] source = rrar_2025 -> 3
      [] source = rusprofile -> 2
      [] source = list_org -> 1
      [] OTHER -> 0

\* count_filled_fields: value and str(value).strip()
CountFilledFields(company) ==
    Cardinality({key \in DOMAIN company : ~IsBlank(key, company[key])})

\* get_company_score
CompanyScore(company) ==
    CountFilledFields(company)
    + SourcePriority(Get(company, "source", <<>>))
    + (IF Get(company, "revenue", 0) > 0 THEN 10 ELSE 0)
    + (IF Get(company, "inn", <<>>) # <<>> THEN 5 ELSE 0)

\* the variant that returns the last member with the largest score
SelectLastBestCompany(group) ==
    LET best == SetMax({CompanyScore(group[i]) : i \in 1..Len(group)})
    IN  group[SetMax({i \in 1..Len(group) : CompanyScore(group[i]) = best})]

\* max(group, key=get_company_score): the first member with the largest score
SelectBaseCompany(group) ==
    LET best == SetMax({CompanyScore(group[i]) : i \in 1..Len(group)})
    IN  group[SetMin({i \in 1..Len(group) : CompanyScore(group[i]) = best})]

-----------------------------------------------------------------------------
(* DuplicateHandler._merge_two_companies *)

\* the variant that never replaces a filled numeric value
MergeValueKeepBase(key, base_value, value) ==
    IF IsBlank(key, base_value) THEN value
    ELSE IF key = "description" /\ Truthy(key, value) /\ value # base_value
         THEN (IF Len(value) > Len(base_value) THEN value ELSE base_value)
    ELSE base_value

\* the value of merged[key] when base and additional both hold key
MergeValue(key, base_value, value) ==
    IF IsBlank(key, base_value) THEN value
    ELSE IF key \in {"revenue", "employees"} /\ value > 0
         THEN (IF base_value = 0 THEN value
               ELSE IF value > base_value THEN value
               ELSE base_value)
    ELSE IF key = "description" /\ Truthy(key, value) /\ value # base_value
         THEN (IF Len(value) > Len(base_value) THEN value ELSE base_value)
    ELSE base_value

\* the variant in which the additional record's values replace the base's
MergeTwoCompaniesUpdate(base, additional) ==
    [key \in DOMAIN base \cup DOMAIN additional |->
        IF key \in DOMAIN additional THEN additional[key] ELSE base[key]]

MergeTwoCompanies(base, additional) ==
    [key \in DOMAIN base \cup DOMAIN additional |->
        IF key \notin DOMAIN additional THEN base[key]
        ELSE IF key \notin DOMAIN base THEN additional[key]
        ELSE MergeValue(key, base[key], additional[key])]

-----------------------------------------------------------------------------
(* DuplicateHandler._merge_company_group *)

\* the loop that folds every member other than the base into merged
RECURSIVE MergeOthers(_, _, _)
MergeOthers(merged, group, base_company) ==
    IF group = <<>> THEN merged
    ELSE IF Head(group) = base_company
         THEN MergeOthers(merged, Tail(group), base_company)
    ELSE MergeOthers(MergeTwoCompanies(merged, Head(group)), Tail(group), base_company)

\* the variant that collects a source every time it occurs
RECURSIVE CollectSourcesRepeated(_, _)
CollectSourcesRepeated(group, sources) ==
    IF group = <<>> THEN sources
    ELSE LET source == Get(Head(group), "source", <<>>)
         IN  IF source # <<>>
             THEN CollectSourcesRepeated(Tail(group), Append(sources, source))
             ELSE CollectSourcesRepeated(Tail(group), sources)

\* the loop that collects the sources: non-empty, distinct, in group order
RECURSIVE CollectSources(_, _)
CollectSources(group, sources) ==
    IF group = <<>> THEN sources
    ELSE LET source == Get(Head(group), "source", <<>>)
         IN  IF source # <<>> /\ source \notin Range(sources)
             THEN CollectSources(Tail(group), Append(sources, source))
             ELSE CollectSources(Tail(group), sources)

\* with merged['source'] = value
WithSource(merged, value) ==
    [key \in DOMAIN merged \cup {"source"} |->
        IF key = "source" THEN value ELSE merged[key]]

MergeCompanyGroup(group) ==
    IF Len(group) = 1 THEN group[1]
    ELSE LET base_company == SelectBaseCompany(group)
             merged == MergeOthers(base_company, group, base_company)
             sources == CollectSources(group, <<>>)
         IN  WithSource(merged,
                 IF sources # <<>> THEN Join(<<",", " ">>, sources)
                 ELSE Get(merged, "source", <<>>))

-----------------------------------------------------------------------------
(* DuplicateHandler.remove_duplicates *)

\* the variant that sends every record to the fuzzy grouping
HasNoInnAlways(company) == TRUE

\* [c for c in companies if not c.get('inn')]
HasNoInn(company) == Get(company, "inn", <<>>) = <<>>

NoInnCompanies(list) == Filter(HasNoInn, list)

\* [merge(group) for group in groups]
MergeAll(groups) == [g \in 1..Len(groups) |-> MergeCompanyGroup(groups[g])]

\* the groups of the dict's items whose key is non-empty
InnGroupsOf(items) ==
    LET kept == Filter(LAMBDA item : item[1] # <<>>, items)
    IN  [g \in 1..Len(kept) |-> kept[g][2]]

\* the variant that appends the fuzzy merges before the exact ones
RemoveDuplicatesFuzzyFirst(list) ==
    MergeAll(GroupBySimilarity(NoInnCompanies(list)))
        \o MergeAll(InnGroupsOf(GroupByInn(list)))

\* the list returned for the input list
RemoveDuplicatesOf(list) ==
    MergeAll(InnGroupsOf(GroupByInn(list)))
        \o MergeAll(GroupBySimilarity(NoInnCompanies(list)))

\* The dicts that the call writes to.  A dict of the input list is named by
\* its position, <<i>>; <<>> names a dict that the call has made.

\* the variant that copies nothing: the same dict under another name
SameDict(dict) == dict

\* dict.copy(): a new dict
Copy(dict) == <<>>

\* the dict that max() returned for the group: the first of the input's
\* records equal to the base
BaseDict(list, base_company) ==
    <<SetMin({i \in 1..Len(list) : list[i] = base_company})>>

\* the dict that merged names when merged['source'] is assigned: the copy
\* of the base or, after a fold, the copy that _merge_two_companies made of
\* merged and wrote the folded values to
MergedDict(group, base_company, base_dict) ==
    LET merged == Copy(base_dict)
    IN  IF \E m \in 1..Len(group) : group[m] # base_company
        THEN Copy(merged)
        ELSE merged

\* the input list after the merges of the groups from group g on: a dict of
\* the list that merged names holds what the merge wrote; a group of one is
\* returned unwritten
RECURSIVE CompaniesAfter(_, _, _, _)
CompaniesAfter(list, groups, merges, g) ==
    IF g > Len(groups) THEN list
    ELSE LET base_company == SelectBaseCompany(groups[g])
             written == IF Len(groups[g]) = 1 THEN <<>>
                        ELSE MergedDict(groups[g], base_company,
                                        BaseDict(list, base_company))
         IN  CompaniesAfter(IF written = <<>> THEN list
                            ELSE [list EXCEPT ![written[1]] = merges[g]],
                            groups, merges, g + 1)

\* None held under the key inn: a value that is no text (a text is a sequence
\* of one-character tokens)
NoneInn == <<"None">>

\* company.get('inn', '').strip() in _group_by_inn raises AttributeError for
\* an inn of None
InnRaises(list) == \E i \in 1..Len(list) : Get(list[i], "inn", <<>>) = NoneInn

RemoveDuplicates ==
    /\ pc = "remove_duplicates"
    /\ IF InnRaises(companies)
       THEN /\ pc' = "raised"
            /\ UNCHANGED <<companies, inn_groups, name_groups, unique_companies>>
       ELSE /\ inn_groups' = GroupByInn(companies)
            /\ name_groups' = GroupBySimilarity(NoInnCompanies(companies))
            /\ unique_companies' = RemoveDuplicatesOf(companies)
            /\ companies' = CompaniesAfter(companies,
                                 InnGroupsOf(inn_groups') \o name_groups',
                                 unique_companies', 1)
            /\ pc' = "returned"
    /\ UNCHANGED <<cleanVars, revenueVars, requestVars, callVars, pipelineVars>>

-----------------------------------------------------------------------------
(* The input records of remove_duplicates.  In process_data the records     *)
(* come from clean_companies_data: every key is present, text is stripped,  *)
(* and a tax id is empty or a string of digits.                             *)

Kreon == <<"K*", "r*", "e*", "o*", "n*">>
OooKreon == <<"O*", "O*", "O*", " ", "K*", "r*", "e*", "o*", "n*">>
Oazis == <<"O*", "a*", "z*", "i*", "s*">>
MirPromo == <<"M*", "i*", "r*", " ", "P*", "r*", "o*", "m*", "o*">>
MirPromoGrupp == <<"M*", "i*", "r*", " ", "P*", "r*", "o*", "m*", "o*", " ", "G*", "r*", "u*", "p*", "p*">>
PromoGrupp == <<"P*", "r*", "o*", "m*", "o*", " ", "G*", "r*", "u*", "p*", "p*">>
Inn1 == <<"7", "7", "0", "7", "0", "8", "3", "8", "9", "3">>
Inn2 == <<"7", "8", "1", "2", "0", "1", "4", "5", "6", "0">>
Moskva == <<"M*", "o*", "s*", "k*", "v*", "a*">>
Kazan == <<"K*", "a*", "z*", "a*", "n*", "sf*">>
DescShort == <<"B", "T", "L">>
DescLong == <<"B", "T", "L", " ", "p*", "r*", "o*", "m*", "o*">>

Company(name, inn, revenue, revenue_year, source, employees, description, region) ==
    [name |-> name, inn |-> inn, revenue |-> revenue, revenue_year |-> revenue_year,
     source |-> source, employees |-> employees, description |-> description,
     region |-> region]

NoInnRecords ==
    {Company(Kreon, <<>>, 0, 2024, rrar_2025, 0, <<>>, Moskva),
     Company(OooKreon, <<>>, 500000000, 2023, marketing_tech, 50, DescShort, <<>>),
     Company(Oazis, <<>>, 0, 2024, rrar_2025, 0, <<>>, <<>>),
     Company(MirPromo, <<>>, 300000000, 2024, rusprofile, 0, DescShort, Kazan),
     Company(MirPromoGrupp, <<>>, 0, 2024, <<>>, 120, DescLong, <<>>),
     Company(PromoGrupp, <<>>, 500000000, 2022, marketing_tech, 50, <<>>, Moskva)}

InnRecords ==
    {Company(Kreon, Inn1, 0, 2024, rrar_2025, 120, <<>>, Moskva),
     Company(OooKreon, Inn1, 500000000, 2023, list_org, 0, <<>>, <<>>),
     Company(Oazis, Inn1, 300000000, 2022, <<>>, 50, DescLong, Kazan),
     Company(Kreon, Inn2, 300000000, 2024, fns_open_data, 50, DescLong, <<>>),
     Company(Oazis, Inn2, 0, 2024, rrar_2025, 0, <<>>, <<>>)}

Records == NoInnRecords \cup InnRecords

\* the longest input list
MaxCompanies == 3

Lists(S, n) == UNION {[1..k -> S] : k \in 0..n}

-----------------------------------------------------------------------------
(* Specification of remove_duplicates *)

Init ==
    /\ pc = "remove_duplicates"
    /\ companies \in Lists(Records, MaxCompanies)
    /\ inn_groups = <<>>
    /\ name_groups = <<>>
    /\ unique_companies = <<>>
    /\ raw = <<>>
    /\ cleaned = <<>>
    /\ result = <<>>
    /\ revenue_in = <<>>
    /\ revenue_out = <<>>
    /\ NoCall
    /\ NoPipeline
    /\ NoRequest

Next == RemoveDuplicates

Spec == Init /\ [][Next]_vars

-----------------------------------------------------------------------------
(* Properties of remove_duplicates, stated on the state after the call *)

Returned == pc = "returned"

Indices(list) == 1..Len(list)

InnOf(company) == Get(company, "inn", <<>>)

\* the groups in the order in which their merges are appended to the output
GroupsInOrder == InnGroupsOf(inn_groups) \o name_groups

\* the distinct non-empty tax ids of the input
InputInns == {InnOf(companies[i]) : i \in Indices(companies)} \ {<<>>}

\* C1: the output holds exactly one record for each distinct non-empty tax id
\* of the input, whatever the names of the records that carry it, and no two
\* output records share a non-empty tax id.
C1_OneRecordPerTaxId ==
    Returned =>
        /\ \A inn \in InputInns :
              Cardinality({i \in Indices(unique_companies) :
                              InnOf(unique_companies[i]) = inn}) = 1
        /\ \A i, j \in Indices(unique_companies) :
              (i # j /\ InnOf(unique_companies[i]) # <<>>)
                  => InnOf(unique_companies[i]) # InnOf(unique_companies[j])

\* three input records with three different names and one tax id, merged into one
C1_Witness ==
    /\ Returned
    /\ Len(companies) = 3
    /\ Cardinality(InputInns) = 1
    /\ \A i \in Indices(companies) : InnOf(companies[i]) # <<>>
    /\ Cardinality({companies[i].name : i \in Indices(companies)}) = 3
    /\ Len(unique_companies) = 1

\* the largest value of a numeric field among the members of a group
LargestIn(group, key) == SetMax({group[m][key] : m \in Indices(group)})

\* C2: the revenue of the record merged from a group of two or more records
\* (all revenues being non-negative numbers) is the largest revenue of the
\* group, whichever member is the base and whatever the order of the members;
\* the same holds for employees.
C2_MergedRevenueIsLargest ==
    Returned =>
        \A g \in Indices(GroupsInOrder) :
            Len(GroupsInOrder[g]) >= 2 =>
                /\ unique_companies[g].revenue = LargestIn(GroupsInOrder[g], "revenue")
                /\ unique_companies[g].employees = LargestIn(GroupsInOrder[g], "employees")

\* a group whose base has neither the largest revenue nor the largest number of
\* employees, with a member of revenue 0 and a member of revenue 500000000
C2_Witness ==
    /\ Returned
    /\ \E g \in Indices(GroupsInOrder) :
          LET group == GroupsInOrder[g]
              base == SelectBaseCompany(group)
          IN  /\ Len(group) >= 2
              /\ InnOf(base) = Inn1
              /\ base.revenue < unique_companies[g].revenue
              /\ base.employees < unique_companies[g].employees
              /\ unique_companies[g].revenue = 500000000
              /\ \E m \in Indices(group) : group[m].revenue = 0

\* the input is two tax-id-less records, named n1 and n2 in either order
TwoNoInnNamed(n1, n2) ==
    /\ Len(companies) = 2
    /\ \A i \in Indices(companies) : InnOf(companies[i]) = <<>>
    /\ {companies[i].name : i \in Indices(companies)} = {n1, n2}

\* the four similarity tests of _are_names_similar on two names, each way round
FailAllTests(a, b) ==
    /\ a # b
    /\ ~AtLeast(SequenceRatio(a, b), threshold)
    /\ ~AtLeast(SequenceRatio(b, a), threshold)
    /\ ~(Len(a) > 5 /\ Len(b) > 5 /\ (Contains(a, b) \/ Contains(b, a)))
    /\ ~AtLeast(WordSimilarity(a, b), word_threshold)

SimilarToAnchor(anchor, company) ==
    AreNamesSimilar(NormalizeNameForComparison(anchor.name),
                    NormalizeNameForComparison(company.name))

\* the input is [A, B, C], all without tax id, B similar to A, C similar to B
\* and C not similar to A
IsChain(list) ==
    /\ Len(list) = 3
    /\ \A i \in Indices(list) : InnOf(list[i]) = <<>>
    /\ SimilarToAnchor(list[1], list[2])
    /\ SimilarToAnchor(list[2], list[3])
    /\ ~SimilarToAnchor(list[1], list[3])

Permutations3 ==
    {<<1, 2, 3>>, <<1, 3, 2>>, <<2, 1, 3>>, <<2, 3, 1>>, <<3, 1, 2>>, <<3, 2, 1>>}

\* C4: a candidate is compared with the anchor of the group only: for
\* tax-id-less records [A, B, C] with B similar to A, C similar to B and C not
\* similar to A, the groups are [A, B] and [C] and C is output as a record of
\* its own; some permutation of the same records gives another number of groups.
C4_AnchorOnly ==
    (Returned /\ IsChain(companies)) =>
        /\ name_groups = <<<<companies[1], companies[2]>>, <<companies[3]>>>>
        /\ Len(unique_companies) = 2
        /\ unique_companies[2] = companies[3]
        /\ \E p \in Permutations3 :
              Len(RemoveDuplicatesOf([i \in 1..3 |-> companies[p[i]]]))
                  # Len(unique_companies)

C4_Witness ==
    /\ Returned
    /\ IsChain(companies)
    /\ Len(unique_companies) = 2
    /\ unique_companies[2] = companies[3]

\* C5: a record with a tax id and a record without are never merged with each
\* other, even with identical names: no group holds both, the record with the
\* tax id is represented among the leading outputs, which all carry a tax id,
\* and the record without among the outputs after them, which carry none.
C5_NoMergeAcrossTaxId ==
    Returned =>
        /\ \A g \in Indices(GroupsInOrder) :
              \A m, n \in Indices(GroupsInOrder[g]) :
                  (InnOf(GroupsInOrder[g][m]) = <<>>)
                      <=> (InnOf(GroupsInOrder[g][n]) = <<>>)
        /\ \A i, j \in Indices(unique_companies) :
              (InnOf(unique_companies[i]) # <<>> /\ InnOf(unique_companies[j]) = <<>>)
                  => i < j
        /\ \A a, b \in Indices(companies) :
              (InnOf(companies[a]) # <<>> /\ InnOf(companies[b]) = <<>>) =>
                  \E i, j \in Indices(unique_companies) :
                      /\ i < j
                      /\ InnOf(unique_companies[i]) = InnOf(companies[a])
                      /\ InnOf(unique_companies[j]) = <<>>
                      /\ \E m \in Indices(GroupsInOrder[j]) :
                            GroupsInOrder[j][m] = companies[b]

\* the record without tax id first, the record with a tax id and the same name
\* second: two outputs, in the opposite order
C5_Witness ==
    /\ Returned
    /\ Len(companies) = 2
    /\ InnOf(companies[1]) = <<>>
    /\ InnOf(companies[2]) # <<>>
    /\ companies[1].name = companies[2].name
    /\ Len(unique_companies) = 2
    /\ InnOf(unique_companies[1]) = InnOf(companies[2])
    /\ unique_companies[2] = companies[1]

\* no two records of the input share a tax id, and no two tax-id-less records
\* of the input have similar names
AllDistinct ==
    \A i, j \in Indices(companies) :
        i # j =>
            /\ InnOf(companies[i]) # <<>> => InnOf(companies[i]) # InnOf(companies[j])
            /\ (InnOf(companies[i]) = <<>> /\ InnOf(companies[j]) = <<>>)
                   => ~SimilarToAnchor(companies[i], companies[j])

\* C6: an input of N records gives M <= N records, M being the number of
\* distinct non-empty tax ids plus the number of fuzzy groups; M = N when the
\* tax ids are all distinct and no two tax-id-less names are similar.
C6_OutputCount ==
    Returned =>
        /\ Len(unique_companies) <= Len(companies)
        /\ Len(unique_companies) = Cardinality(InputInns) + Len(name_groups)
        /\ AllDistinct => Len(unique_companies) = Len(companies)

\* three records in, two out: one tax id shared by two records, one fuzzy group
C6_Witness ==
    /\ Returned
    /\ Len(companies) = 3
    /\ Cardinality(InputInns) = 1
    /\ Len(name_groups) = 1
    /\ Len(unique_companies) = 2

SourceOf(company) == Get(company, "source", <<>>)

\* the distinct non-empty sources of a group, each at its first occurrence
FirstSeenSources(group) ==
    AtIndices([m \in Indices(group) |-> SourceOf(group[m])],
              {m \in Indices(group) :
                  /\ SourceOf(group[m]) # <<>>
                  /\ \A n \in 1..(m - 1) : SourceOf(group[n]) # SourceOf(group[m])},
              1)

\* C7: the source of a record merged from two or more records is the distinct
\* non-empty sources of the members joined by ", ", each in the place of its
\* first occurrence in the group (the base's source does not come first); the
\* record of a singleton group keeps its source.
C7_MergedSource ==
    Returned =>
        \A g \in Indices(GroupsInOrder) :
            IF Len(GroupsInOrder[g]) >= 2
            THEN unique_companies[g].source =
                     Join(<<",", " ">>, FirstSeenSources(GroupsInOrder[g]))
            ELSE unique_companies[g].source = GroupsInOrder[g][1].source

\* a group of three whose base is its second member and whose third member
\* repeats the source of the first: the merged source is the first member's,
\* ", ", the base's
C7_Witness ==
    /\ Returned
    /\ \E g \in Indices(GroupsInOrder) :
          LET group == GroupsInOrder[g]
          IN  /\ Len(group) = 3
              /\ SelectBaseCompany(group) = group[2]
              /\ group[1].source # <<>>
              /\ group[1].source # group[2].source
              /\ group[3].source = group[1].source
              /\ unique_companies[g].source =
                     group[1].source \o <<",", " ">> \o group[2].source

-----------------------------------------------------------------------------
(* Raw values.  A raw record is a dict whose values have no fixed type: a   *)
(* value is None, a str or a number.  Optional results are sequences of     *)
(* length 0 (None) or 1.                                                    *)

PyNone == [kind |-> "none", text |-> <<>>, number |-> 0]
PyText(s) == [kind |-> "text", text |-> s, number |-> 0]
PyNumber(n) == [kind |-> "number", text |-> <<>>, number |-> n]

\* not value
PyFalsy(value) ==
    \/ value.kind = "none"
    \/ value.kind = "text" /\ value.text = <<>>
    \/ value.kind = "number" /\ value.number = 0

None == <<>>
Some(x) == <<x>>

(* A Python float is the pair <<n, d>> of the fraction n/d, d a power of ten *)

Float(n) == <<n, 1>>
FloatIsZero(q) == q[1] = 0
FloatPositive(q) == q[1] > 0
\* q < m and q >= m for an integer m: through the floor of q
FloatLess(q, m) == (q[1] \div q[2]) < m
\* q = m for an integer m
FloatIs(q, m) == q[1] % q[2] = 0 /\ q[1] \div q[2] = m
\* q * unit, for a unit that is a multiple of d
FloatTimes(q, unit) ==
    IF unit % q[2] = 0 THEN <<q[1] * (unit \div q[2]), 1>> ELSE <<q[1] * unit, q[2]>>

-----------------------------------------------------------------------------
(* helpers.clean_text, helpers.normalize_company_name *)

\* re.sub(r'<[^>]+>', '', text): a tag is "<", one or more characters other
\* than ">", and the first ">" after them
\* the first index of c in s at or after from, 0 when there is none
FirstIndexOf(s, c, from) ==
    LET at == {k \in from..Len(s) : s[k] = c}
    IN  IF at = {} THEN 0 ELSE SetMin(at)

\* where the leftmost tag of s starts, 0 when s holds no tag
FirstTag(s) ==
    LET starts == {i \in 1..Len(s) : s[i] = "<" /\ FirstIndexOf(s, ">", i + 1) > i + 1}
    IN  IF starts = {} THEN 0 ELSE SetMin(starts)

RECURSIVE RemoveTags(_)
RemoveTags(s) ==
    LET open == FirstTag(s)
    IN  IF open = 0 THEN s
        ELSE SubSeq(s, 1, open - 1) \o RemoveTags(Drop(s, FirstIndexOf(s, ">", open + 1)))

CleanText(text) ==
    IF text = <<>> THEN <<>>
    ELSE Strip(CollapseSpaces(RemoveTags(text)))

\* the literal parts of the patterns r'^FORM\s*["\']?' of legal_forms
name_legal_forms ==
    <<<<"O*", "O*", "O*">>,
      <<"Z*", "A*", "O*">>,
      <<"O*", "A*", "O*">>,
      <<"A*", "O*">>,
      <<"I*", "P*">>,
      <<"O*", "b*", "sch*", "e*", "s*", "t*", "v*", "o*", " ", "s*", " ", "o*", "g*", "r*", "a*", "n*", "i*", "ch*", "e*", "n*", "n*", "o*", "j*", " ", "o*", "t*", "v*", "e*", "t*", "s*", "t*", "v*", "e*", "n*", "n*", "o*", "s*", "t*", "sf*", "yu*">>>>

IsQuote(c) == c \in {"\"", "'"}

\* re.sub(r'^FORM\s*["\']?', '', name, flags=re.IGNORECASE)
RemoveLeadingForm(name, form) ==
    IF StartsWith(ToLower(name), ToLower(form))
    THEN LET rest == LStrip(Drop(name, Len(form)))
         IN  IF rest # <<>> /\ IsQuote(Head(rest)) THEN Tail(rest) ELSE rest
    ELSE name

RECURSIVE RemoveLeadingForms(_, _)
RemoveLeadingForms(name, forms) ==
    IF forms = <<>> \/ name = <<>> THEN name
    ELSE RemoveLeadingForms(RemoveLeadingForm(name, Head(forms)), Tail(forms))

\* re.sub(r'^["\']|["\']$', '', name)
RemoveOuterQuotes(name) ==
    LET rest == IF name # <<>> /\ IsQuote(Head(name)) THEN Tail(name) ELSE name
    IN  IF rest # <<>> /\ IsQuote(rest[Len(rest)])
        THEN SubSeq(rest, 1, Len(rest) - 1) ELSE rest

NormalizeCompanyName(name) ==
    IF name = <<>> THEN <<>>
    ELSE Strip(RemoveOuterQuotes(RemoveLeadingForms(CleanText(name), name_legal_forms)))

-----------------------------------------------------------------------------
(* helpers.parse_revenue *)

DigitSeq == <<"0", "1", "2", "3", "4", "5", "6", "7", "8", "9">>

DigitValue(c) == (CHOOSE i \in 1..10 : DigitSeq[i] = c) - 1

\* int(digits), 0 for no digits
RECURSIVE DigitsValue(_)
DigitsValue(digits) ==
    IF digits = <<>> THEN 0
    ELSE 10 * DigitsValue(SubSeq(digits, 1, Len(digits) - 1))
            + DigitValue(digits[Len(digits)])

RECURSIVE PowerOfTen(_)
PowerOfTen(n) == IF n = 0 THEN 1 ELSE 10 * PowerOfTen(n - 1)

\* the longest prefix of s made of digits
RECURSIVE LeadingDigits(_)
LeadingDigits(s) ==
    IF s # <<>> /\ Head(s) \in Digits THEN <<Head(s)>> \o LeadingDigits(Tail(s))
    ELSE <<>>

\* the class [^\d,.\s] of the first re.sub
IsNotNumberChar(c) == ~(c \in Digits \/ c \in {",", "."} \/ IsSpace(c))

\* re.findall(r'\d+[,.]?\d*', s)[0] as <<digits before the separator, digits
\* after it>>, or None when s holds no digit
RECURSIVE FirstNumber(_)
FirstNumber(s) ==
    IF s = <<>> THEN None
    ELSE IF Head(s) \notin Digits THEN FirstNumber(Tail(s))
    ELSE LET whole == LeadingDigits(s)
             rest == Drop(s, Len(whole))
         IN  IF rest # <<>> /\ rest[1] \in {",", "."}
             THEN Some(<<whole, LeadingDigits(Tail(rest))>>)
             ELSE Some(<<whole, <<>>>>)

\* float(num_str) for the digits before and after the decimal point
FloatOfDigits(whole, fraction) ==
    <<DigitsValue(whole) * PowerOfTen(Len(fraction)) + DigitsValue(fraction),
      PowerOfTen(Len(fraction))>>

mlrd == <<"m*", "l*", "r*", "d*">>
billion == <<"b", "i", "l", "l", "i", "o", "n">>
mln == <<"m*", "l*", "n*">>
million == <<"m", "i", "l", "l", "i", "o", "n">>
tys == <<"t*", "y*", "s*">>
thousand == <<"t", "h", "o", "u", "s", "a", "n", "d">>

\* the multiplier chosen from the unit words found in text
UnitOf(text) ==
    IF Contains(text, mlrd) \/ Contains(text, billion) THEN 1000000000
    ELSE IF Contains(text, mln) \/ Contains(text, million) THEN 1000000
    ELSE IF Contains(text, tys) \/ Contains(text, thousand) THEN 1000
    ELSE 1

\* parse_revenue: the unit words are looked up in revenue_str after the first
\* re.sub has rebound it to the text without its letters
ParseRevenue(revenue_str) ==
    IF revenue_str = <<>> THEN None
    ELSE LET stripped == DeleteChars(IsNotNumberChar, ToLower(revenue_str))
             numbers == FirstNumber(stripped)
         IN  IF numbers = None THEN None
             ELSE LET revenue == FloatOfDigits(numbers[1][1], numbers[1][2])
                      original_str == ToLower(stripped)
                  IN  Some(FloatTimes(revenue, UnitOf(original_str)))

-----------------------------------------------------------------------------
(* DataCleaner *)

\* config.min_revenue
MinRevenue == 200000000

\* the class [^\w\s\-\&\.\(\)\"\'] of _clean_company_name
IsNotNameChar(c) ==
    ~(IsWordChar(c) \/ IsSpace(c) \/ c \in {"-", "&", ".", "(", ")", "\"", "'"})

\* _clean_company_name on a str
CleanCompanyName(name) ==
    IF name = <<>> THEN <<>>
    ELSE Strip(CollapseSpaces(RunsToSpace(IsNotNameChar, NormalizeCompanyName(name))))

IsNotDigit(c) == c \notin Digits

\* the variant that accepts every length from 10 to 12
CleanInnLengthRange(inn) ==
    IF PyFalsy(inn) THEN <<>>
    ELSE LET inn_digits == DeleteChars(IsNotDigit, Strip(inn.text))
         IN  IF Len(inn_digits) >= 10 /\ Len(inn_digits) <= 12 THEN inn_digits ELSE <<>>

\* _clean_inn on None or a str
CleanInn(inn) ==
    IF PyFalsy(inn) THEN <<>>
    ELSE LET inn_digits == DeleteChars(IsNotDigit, Strip(inn.text))
         IN  IF Len(inn_digits) \in {10, 12} THEN inn_digits ELSE <<>>

\* str.upper() on one character
UpperMap ==
    [c \in Range(LowerLetters) |->
        UpperLetters[CHOOSE i \in 1..Len(LowerLetters) : LowerLetters[i] = c]]

Upper(c) == IF c \in DOMAIN UpperMap THEN UpperMap[c] ELSE c

\* str.upper()
ToUpper(s) == MapChars(Upper, s)

valid_tags ==
    <<<<"B", "T", "L">>,
      <<"S", "O", "U", "V", "E", "N", "I", "R">>,
      <<"F", "U", "L", "L", "_", "C", "Y", "C", "L", "E">>,
      <<"C", "O", "M", "M", "_", "G", "R", "O", "U", "P">>,
      <<"E", "V", "E", "N", "T">>,
      <<"P", "R", "O", "M", "O">>>>

\* the first tag of tags contained in segment_upper, BTL when there is none
RECURSIVE FirstTagIn(_, _)
FirstTagIn(segment_upper, tags) ==
    IF tags = <<>> THEN valid_tags[1]
    ELSE IF Contains(segment_upper, Head(tags)) THEN Head(tags)
    ELSE FirstTagIn(segment_upper, Tail(tags))

\* _clean_segment_tag on None or a str
CleanSegmentTag(segment) ==
    IF PyFalsy(segment) THEN <<>>
    ELSE FirstTagIn(ToUpper(segment.text), valid_tags)

\* the length _clean_description cuts at
MaxDescription == 300

\* _clean_description on None or a str
CleanDescription(description) ==
    IF PyFalsy(description) THEN <<>>
    ELSE LET desc == CleanText(description.text)
         IN  IF Len(desc) > MaxDescription
             THEN SubSeq(desc, 1, MaxDescription) \o <<".", ".", ".">>
             ELSE desc

\* _clean_revenue
CleanRevenue(revenue) ==
    IF revenue.kind = "number" THEN Float(revenue.number)
    ELSE IF revenue.kind = "text"
         THEN LET parsed == ParseRevenue(revenue.text)
              IN  IF parsed # None /\ ~FloatIsZero(parsed[1]) THEN parsed[1]
                  ELSE Float(0)
    ELSE Float(0)

\* the variant that checks the name only
IsValidCompanyByName(company) == Get(company, "name", <<>>) # <<>>

\* the variant that also rejects a revenue of 0
IsValidCompanyRejectingZero(company) ==
    IF Get(company, "name", <<>>) = <<>> THEN FALSE
    ELSE ~FloatLess(Get(company, "revenue", Float(0)), MinRevenue)

\* _is_valid_company
IsValidCompany(company) ==
    IF Get(company, "name", <<>>) = <<>> THEN FALSE
    ELSE LET revenue == Get(company, "revenue", Float(0))
         IN  ~(FloatPositive(revenue) /\ FloatLess(revenue, MinRevenue))

unknown == <<"u", "n", "k", "n", "o", "w", "n">>

\* company.get(key, default) on a raw record
GetRaw(company, key, default) ==
    IF key \in DOMAIN company THEN company[key] ELSE default

\* the dict built by clean_single_company from a raw record that holds no
\* other key than name, inn, revenue, segment_tag and description (the last
\* two None or a str): the other fields are cleaned from the defaults of
\* company.get
CleanedDict(company) ==
    [name |-> CleanCompanyName(GetRaw(company, "name", PyText(<<>>)).text),
     inn |-> CleanInn(GetRaw(company, "inn", PyText(<<>>))),
     revenue |-> CleanRevenue(GetRaw(company, "revenue", PyNumber(0))),
     revenue_year |-> 2024,
     segment_tag |-> CleanSegmentTag(GetRaw(company, "segment_tag", PyText(<<>>))),
     source |-> unknown,
     okved_main |-> <<>>,
     employees |-> 0,
     site |-> <<>>,
     description |-> CleanDescription(GetRaw(company, "description", PyText(<<>>))),
     region |-> <<>>,
     contacts |-> <<>>,
     rating_ref |-> <<>>]

\* _clean_company_name raises: normalize_company_name hands a value that is
\* neither falsy nor a str to re.sub
NameRaises(company) ==
    LET name == GetRaw(company, "name", PyText(<<>>))
    IN  ~PyFalsy(name) /\ name.kind # "text"

\* cleaned at the time clean_single_company returns
CleanedAtReturn(company) ==
    IF NameRaises(company) THEN <<>>
    ELSE IF CleanedDict(company).name = <<>> THEN [name |-> <<>>]
    ELSE CleanedDict(company)

\* the variant that returns the dict without looking at the name
CleanSingleCompanyUnchecked(company) ==
    IF NameRaises(company) THEN None
    ELSE LET revenue == CleanedDict(company).revenue
         IN  IF FloatPositive(revenue) /\ FloatLess(revenue, MinRevenue) THEN None
             ELSE Some(CleanedDict(company))

\* clean_single_company: the returned dict, or None
CleanSingleCompanyOf(company) ==
    IF NameRaises(company) THEN None
    ELSE IF CleanedDict(company).name = <<>> THEN None
    ELSE IF ~IsValidCompany(CleanedDict(company)) THEN None
    ELSE Some(CleanedDict(company))

CleanSingleCompany ==
    /\ pc = "clean_single_company"
    /\ cleaned' = CleanedAtReturn(raw)
    /\ result' = CleanSingleCompanyOf(raw)
    /\ pc' = "cleaned"
    /\ UNCHANGED <<raw, dedupVars, revenueVars, requestVars, callVars, pipelineVars>>

CleanRevenueCall ==
    /\ pc = "_clean_revenue"
    /\ revenue_out' = CleanRevenue(revenue_in)
    /\ pc' = "revenue_cleaned"
    /\ UNCHANGED <<revenue_in, dedupVars, cleanVars, requestVars, callVars, pipelineVars>>

-----------------------------------------------------------------------------
(* The raw records given to clean_single_company *)

MaxNameLen == 4

NameAlphabet == {"A*", "O*", "K*", " ", "\"", "!", "<", ">"}

\* every text over the alphabet of at most n characters
Texts(alphabet, n) == UNION {[1..k -> alphabet] : k \in 0..n}

OooQuotes == <<"O*", "O*", "O*", " ", "\"", "\"">>
OooFourQuotes == <<"O*", "O*", "O*", " ", "\"", "\"", "\"", "\"">>
QuotedKreon == <<"O*", "O*", "O*", " ", "\"", "K*", "r*", "e*", "o*", "n*", "\"">>
LongFormKreon == <<"o*", "b*", "sch*", "e*", "s*", "t*", "v*", "o*", " ", "s*", " ", "o*", "g*", "r*", "a*", "n*", "i*", "ch*", "e*", "n*", "n*", "o*", "j*", " ", "o*", "t*", "v*", "e*", "t*", "s*", "t*", "v*", "e*", "n*", "n*", "o*", "s*", "t*", "sf*", "yu*", " ", "K*", "r*", "e*", "o*", "n*">>
ZaoOooKreon == <<"Z*", "A*", "O*", " ", "O*", "O*", "O*", " ", "K*", "r*", "e*", "o*", "n*">>
TaggedKreon == <<"<", "b", ">", "K*", "r*", "e*", "o*", "n*", "<", "/", "b", ">", "\n", " ", "#", "1">>

CuratedNames ==
    {Kreon, OooQuotes, OooFourQuotes, QuotedKreon, LongFormKreon, ZaoOooKreon, TaggedKreon}

T500mln == <<"5", "0", "0", " ", "m*", "l*", "n*">>
T12mlrd == <<"1", ".", "2", " ", "m*", "l*", "r*", "d*">>
Tna == <<"n", "/", "a">>

\* a key that is absent, or present with a value
Absent == <<>>
Present(value) == <<value>>

RawNames(names) ==
    {Absent, Present(PyNone), Present(PyNumber(0)), Present(PyNumber(123))}
        \cup {Present(PyText(name)) : name \in names}

RawInns ==
    {Absent, Present(PyNone), Present(PyText(Inn1)),
     Present(PyText(<<" ">> \o Inn1 \o <<" ">>)),
     Present(PyText(<<"1", "2", "-", "3", "4">>))}

RawRevenues ==
    {Absent, Present(PyNone)}
        \cup {Present(PyNumber(n)) : n \in {0, 1, 199999999, 200000000, 500000000, -5}}
        \cup {Present(PyText(t)) : t \in {<<>>, T500mln, T12mlrd, Tna}}

\* the dict with the keys that are present
RawRecord(name, inn, revenue) ==
    LET field == [k \in {"name", "inn", "revenue"} |->
                     IF k = "name" THEN name ELSE IF k = "inn" THEN inn ELSE revenue]
    IN  [k \in {key \in {"name", "inn", "revenue"} : field[key] # Absent} |-> field[k][1]]

RawRecords ==
    {RawRecord(name, Absent, Absent) : name \in RawNames(Texts(NameAlphabet, MaxNameLen))}
        \cup {RawRecord(name, inn, revenue) :
                 name \in RawNames(CuratedNames), inn \in RawInns, revenue \in RawRevenues}

InitClean ==
    /\ pc = "clean_single_company"
    /\ raw \in RawRecords
    /\ cleaned = <<>>
    /\ result = <<>>
    /\ companies = <<>>
    /\ inn_groups = <<>>
    /\ name_groups = <<>>
    /\ unique_companies = <<>>
    /\ revenue_in = <<>>
    /\ revenue_out = <<>>
    /\ NoCall
    /\ NoPipeline
    /\ NoRequest

NextClean == CleanSingleCompany

SpecClean == InitClean /\ [][NextClean]_vars

-----------------------------------------------------------------------------
(* The values given to _clean_revenue *)

MaxRevenueWords == 2

NumberWords ==
    {<<"0">>, <<"2">>, <<"5", "0", "0">>, <<"1", ".", "2">>, <<"1", ",", "5">>}

UnitWords == {mlrd, billion, mln, million, tys, thousand}

OtherWords == {<<"r*", "u*", "b*">>, <<"M*", "L*", "N*">>}

\* the texts of at most n words
RevenueTexts(n) ==
    {Join(<<" ">>, words) :
        words \in UNION {[1..k -> NumberWords \cup UnitWords \cup OtherWords] : k \in 0..n}}

RevenueInputs ==
    {PyNone}
        \cup {PyNumber(n) : n \in {0, 1, 500000000, -5}}
        \cup {PyText(t) : t \in RevenueTexts(MaxRevenueWords)}

InitRevenue ==
    /\ pc = "_clean_revenue"
    /\ revenue_in \in RevenueInputs
    /\ revenue_out = <<>>
    /\ raw = <<>>
    /\ cleaned = <<>>
    /\ result = <<>>
    /\ companies = <<>>
    /\ inn_groups = <<>>
    /\ name_groups = <<>>
    /\ unique_companies = <<>>
    /\ NoCall
    /\ NoPipeline
    /\ NoRequest

NextRevenue == CleanRevenueCall

SpecRevenue == InitRevenue /\ [][NextRevenue]_vars

-----------------------------------------------------------------------------
(* Properties of clean_single_company and _clean_revenue *)

Cleaned == pc = "cleaned"

RawNameMissing == "name" \notin DOMAIN raw

RawNameIsText == ~RawNameMissing /\ raw.name.kind = "text"

\* the raw name is one or more whitespace characters
RawNameBlank ==
    /\ RawNameIsText
    /\ raw.name.text # <<>>
    /\ \A i \in 1..Len(raw.name.text) : IsSpace(raw.name.text[i])

\* the raw name is a legal form followed by nothing but quotes and spaces
RawNameFormAndQuotes ==
    /\ RawNameIsText
    /\ \E f \in 1..Len(name_legal_forms) :
          LET form == name_legal_forms[f]
              name == raw.name.text
          IN  /\ StartsWith(ToLower(name), ToLower(form))
              /\ \E i \in 1..Len(name) : IsQuote(name[i])
              /\ \A i \in (Len(form) + 1)..Len(name) : IsQuote(name[i]) \/ IsSpace(name[i])

\* C8: clean_single_company returns None or a record whose name is a non-empty
\* text, never a record with an empty name; it returns None when the raw name
\* is missing or whitespace only, and for a name made of a legal-form prefix
\* and quotes it returns None or a record with a non-empty name.
C8_NameNeverEmpty ==
    Cleaned =>
        /\ result = None \/ result[1].name # <<>>
        /\ RawNameMissing \/ RawNameBlank => result = None
        /\ RawNameFormAndQuotes => result = None \/ Len(result[1].name) > 0

C8_Witness ==
    /\ Cleaned
    /\ RawNameFormAndQuotes
    /\ result = None
    /\ cleaned.name = <<>>

\* revenue = number * unit, for a unit that is a positive integer; the
\* products of the two sides are compared through a division by the unit
IsScaled(revenue, number, unit) ==
    LET scaled == revenue[1] * number[2]
    IN  scaled % unit = 0 /\ scaled \div unit = number[1] * revenue[2]

\* C9: _clean_revenue of a text is the first numeric token of the text times
\* the unit named in the text (mlrd/billion 10^9, mln/million 10^6,
\* tys/thousand 10^3, otherwise 1), and 0 for a text without a numeric token;
\* of a number it is the number itself.
C9_RevenueTextScaled ==
    pc = "revenue_cleaned" =>
        CASE revenue_in.kind = "number" -> revenue_out = Float(revenue_in.number)
          [] revenue_in.kind = "text" ->
                LET numbers == FirstNumber(revenue_in.text)
                IN  IF numbers = None THEN FloatIsZero(revenue_out)
                    ELSE IsScaled(revenue_out,
                                  FloatOfDigits(numbers[1][1], numbers[1][2]),
                                  UnitOf(ToLower(revenue_in.text)))
          [] OTHER -> TRUE

\* the record reached the validity gate with a non-empty name
ReachedGate == Cleaned /\ "revenue" \in DOMAIN cleaned /\ cleaned.name # <<>>

\* C10: a record with a non-empty name is rejected by the validity gate
\* exactly when 0 < revenue < min_revenue; with revenue 0 it is not rejected,
\* with revenue 1 it is.
C10_RevenueGate ==
    ReachedGate =>
        /\ result = None <=>
              FloatPositive(cleaned.revenue) /\ FloatLess(cleaned.revenue, MinRevenue)
        /\ FloatIsZero(cleaned.revenue) => result = Some(cleaned)
        /\ FloatIs(cleaned.revenue, 1) => result = None

C10_Witness ==
    /\ ReachedGate
    /\ FloatIs(cleaned.revenue, 1)
    /\ result = None

-----------------------------------------------------------------------------
(* Calls of the functions of one value: DataCleaner._clean_inn *)

CleanInnCall ==
    /\ pc = "_clean_inn"
    /\ ret' = CleanInn(arg)
    /\ pc' = "inn_cleaned"
    /\ UNCHANGED <<arg, dedupVars, cleanVars, revenueVars, requestVars, pipelineVars>>

\* _clean_inn applied to what _clean_inn returned
CleanInnAgain ==
    /\ pc = "inn_cleaned"
    /\ arg' = PyText(ret)
    /\ ret' = CleanInn(PyText(ret))
    /\ pc' = "inn_recleaned"
    /\ UNCHANGED <<dedupVars, cleanVars, revenueVars, requestVars, pipelineVars>>

MaxInnDigits == 12

\* a text of n digits
DigitText(n) == [i \in 1..n |-> DigitSeq[((i * 7) % 10) + 1]]

\* s with the text stray put after its first p characters
Insert(s, p, stray) == SubSeq(s, 1, p) \o stray \o SubSeq(s, p + 1, Len(s))

Strays == {<<" ">>, <<"-">>, <<"I", "N", "N", ":", " ">>, <<"/", "5">>}

InnInputs ==
    {PyNone}
        \cup {PyText(DigitText(n)) : n \in 0..MaxInnDigits}
        \cup UNION {{PyText(Insert(DigitText(n), p, stray)) : p \in 0..n, stray \in Strays} :
                        n \in 0..MaxInnDigits}
        \cup {PyText(<<" ">> \o DigitText(n) \o <<" ", "\n">>) : n \in 0..MaxInnDigits}

CleanSegmentTagCall ==
    /\ pc = "_clean_segment_tag"
    /\ ret' = CleanSegmentTag(arg)
    /\ pc' = "segment_tag_cleaned"
    /\ UNCHANGED <<arg, dedupVars, cleanVars, revenueVars, requestVars, pipelineVars>>

MaxSegmentWords == 2

SegmentWords ==
    {<<"b", "t", "l">>, <<"B", "T", "L">>, <<"s", "o", "u", "v", "e", "n", "i", "r">>,
     <<"f", "u", "l", "l", "_", "c", "y", "c", "l", "e">>,
     <<"c", "o", "m", "m", "_", "g", "r", "o", "u", "p">>,
     <<"E", "v", "e", "n", "t">>, <<"p", "r", "o", "m", "o">>,
     <<"a", "g", "e", "n", "c", "y">>, <<"s*", "u*", "v*", "e*", "n*", "i*", "r*">>}

\* None and the texts of at most n words
SegmentInputs(n) ==
    {PyNone} \cup
    {PyText(Join(<<" ">>, words)) :
        words \in UNION {[1..k -> SegmentWords] : k \in 0..n}}

CleanDescriptionCall ==
    /\ pc = "_clean_description"
    /\ ret' = CleanDescription(arg)
    /\ pc' = "description_cleaned"
    /\ UNCHANGED <<arg, dedupVars, cleanVars, revenueVars, requestVars, pipelineVars>>

\* how far the lengths of the descriptions go beyond MaxDescription
MaxExcess == 3

\* the text of n letters
LetterText(n) == [i \in 1..n |-> "a"]

\* None, short texts and the texts of MaxDescription - MaxExcess to
\* MaxDescription + MaxExcess letters, bare, padded, and inside a tag
DescriptionInputs ==
    {PyNone} \cup
    UNION {{PyText(LetterText(n)),
            PyText(<<" ", " ">> \o LetterText(n) \o <<"\n">>),
            PyText(<<"<", "p", ">">> \o LetterText(n) \o <<"<", "/", "p", ">">>),
            PyText(LetterText(n - 1) \o <<" ", " ", "b">>)} :
              n \in (0..MaxExcess) \cup
                    ((MaxDescription - MaxExcess)..(MaxDescription + MaxExcess))}

NormalizeNameCall ==
    /\ pc = "_normalize_name_for_comparison"
    /\ ret' = NormalizeNameForComparison(arg)
    /\ pc' = "normalized"
    /\ UNCHANGED <<arg, dedupVars, cleanVars, revenueVars, requestVars, pipelineVars>>

\* names that hold no legal form, and words that hold the letters of one
PlainNames == {Kreon, Oazis, MirPromo}
Haos == <<"H*", "a*", "o*", "s*">>
Princip == <<"P*", "r*", "i*", "n*", "c*", "i*", "p*">>
WordsHoldingForms == {Haos, Princip}

\* the names X, "form X" and "X form", the form in lower and in upper case
NormalizeInputs ==
    {<<>>} \cup PlainNames \cup WordsHoldingForms \cup
    UNION {{legal_forms[f] \o <<" ">> \o name,
            name \o <<" ">> \o legal_forms[f],
            ToUpper(legal_forms[f]) \o <<" ">> \o name} :
              f \in 1..Len(legal_forms), name \in PlainNames}

AreNamesSimilarCall ==
    /\ pc = "_are_names_similar"
    /\ ret' = AreNamesSimilar(arg[1], arg[2])
    /\ pc' = "compared"
    /\ UNCHANGED <<arg, dedupVars, cleanVars, revenueVars, requestVars, pipelineVars>>

MaxNameWords == 2

NormalizedWords ==
    {<<"m*", "i*", "r*">>, <<"p*", "r*", "o*", "m*", "o*">>, <<"g*", "r*", "u*", "p*", "p*">>}

\* comparison-normalized names: the texts of at most n words, and names
\* that pass one test only
ComparedNames(n) ==
    {Join(<<" ">>, words) : words \in UNION {[1..k -> NormalizedWords] : k \in 0..n}}
        \cup {<<"k*", "r*", "e*", "o*", "n*">>, <<"k*", "r*", "e*", "a*", "n*">>,
              <<"m*", "i*", "r*", "p*", "r*", "o*", "m*", "o*">>,
              <<"m*", "i*", "r*", "p*", "r*", "o*", "m*", "o*", " ", "g*", "r*", "u*", "p*", "p*", " ", "i*">>}

SelectBaseCompanyCall ==
    /\ pc = "_select_base_company"
    /\ ret' = SelectBaseCompany(arg)
    /\ pc' = "base_selected"
    /\ UNCHANGED <<arg, dedupVars, cleanVars, revenueVars, requestVars, pipelineVars>>

\* a source that the priority table does not hold
hh_ru == <<"h", "h", "_", "r", "u">>

\* the records of remove_duplicates and two of an unranked source
ScoredRecords ==
    Records \cup {Company(Oazis, <<>>, 0, 2024, hh_ru, 0, <<>>, <<>>),
                  Company(Oazis, Inn2, 500000000, 0, hh_ru, 0, <<>>, Kazan)}

\* the groups of two to n records
Groups(S, n) == {group \in Lists(S, n) : Len(group) >= 2}

MergeCompanyGroupCall ==
    /\ pc = "_merge_company_group"
    /\ ret' = MergeCompanyGroup(arg)
    /\ pc' = "group_merged"
    /\ UNCHANGED <<arg, dedupVars, cleanVars, revenueVars, requestVars, pipelineVars>>

\* the groups that remove_duplicates hands to _merge_company_group: records
\* of one tax id, or tax-id-less records similar to the first of them
MergedGroups(S, n) ==
    {group \in Groups(S, n) :
        \/ /\ InnKey(group[1]) # <<>>
           /\ \A i \in 1..Len(group) : InnKey(group[i]) = InnKey(group[1])
        \/ \A i \in 1..Len(group) :
              /\ HasNoInn(group[i])
              /\ i > 1 => Similar(ComparisonName(group[1]), ComparisonName(group[i]))}

CleanCompanyNameCall ==
    /\ pc = "_clean_company_name"
    /\ ret' = CleanCompanyName(arg)
    /\ pc' = "name_cleaned"
    /\ UNCHANGED <<arg, dedupVars, cleanVars, revenueVars, requestVars, pipelineVars>>

\* _clean_company_name applied to what _clean_company_name returned
CleanCompanyNameAgain ==
    /\ pc = "name_cleaned"
    /\ arg' = ret
    /\ ret' = CleanCompanyName(ret)
    /\ pc' = "name_recleaned"
    /\ UNCHANGED <<dedupVars, cleanVars, revenueVars, requestVars, pipelineVars>>

\* the curated names, and Kreon after one and after two legal forms
NameInputs ==
    CuratedNames
        \cup {name_legal_forms[f] \o <<" ">> \o Kreon : f \in 1..Len(name_legal_forms)}
        \cup {name_legal_forms[f] \o <<" ">> \o name_legal_forms[g] \o <<" ">> \o Kreon :
                 f, g \in 1..Len(name_legal_forms)}

InitCalls ==
    /\ \/ pc = "_clean_inn" /\ arg \in InnInputs
       \/ pc = "_clean_company_name" /\ arg \in NameInputs
       \/ pc = "_select_base_company" /\ arg \in Groups(ScoredRecords, MaxCompanies)
       \/ pc = "_merge_company_group" /\ arg \in MergedGroups(ScoredRecords, MaxCompanies)
       \/ pc = "_clean_segment_tag" /\ arg \in SegmentInputs(MaxSegmentWords)
       \/ pc = "_clean_description" /\ arg \in DescriptionInputs
       \/ pc = "_normalize_name_for_comparison" /\ arg \in NormalizeInputs
       \/ pc = "_are_names_similar"
             /\ arg \in ComparedNames(MaxNameWords) \X ComparedNames(MaxNameWords)
    /\ ret = <<>>
    /\ companies = <<>>
    /\ inn_groups = <<>>
    /\ name_groups = <<>>
    /\ unique_companies = <<>>
    /\ raw = <<>>
    /\ cleaned = <<>>
    /\ result = <<>>
    /\ revenue_in = <<>>
    /\ revenue_out = <<>>
    /\ NoPipeline
    /\ NoRequest

NextCalls ==
    \/ CleanInnCall
    \/ CleanInnAgain
    \/ CleanSegmentTagCall
    \/ CleanDescriptionCall
    \/ NormalizeNameCall
    \/ AreNamesSimilarCall
    \/ SelectBaseCompanyCall
    \/ MergeCompanyGroupCall
    \/ CleanCompanyNameCall
    \/ CleanCompanyNameAgain

SpecCalls == InitCalls /\ [][NextCalls]_vars

-----------------------------------------------------------------------------
(* Properties of the functions of one value *)

IsDigit(c) == c \in Digits

\* the digits of a raw tax id, in order
DigitsOf(inn) == IF inn.kind = "text" THEN SelectSeq(inn.text, IsDigit) ELSE <<>>

\* C11: _clean_inn returns the digits of its input, in order, when there are
\* exactly 10 or 12 of them and the empty text otherwise; a text of 10 or 12
\* digits is returned unchanged, and cleaning what a cleaning returned
\* returns it again.
C11_InnCleaning ==
    /\ pc = "inn_cleaned" =>
          /\ ret = IF Len(DigitsOf(arg)) \in {10, 12} THEN DigitsOf(arg) ELSE <<>>
          /\ ret = <<>> \/ (Len(ret) \in {10, 12} /\ \A i \in 1..Len(ret) : ret[i] \in Digits)
          /\ arg.kind = "text" /\ arg.text = DigitsOf(arg) /\ Len(arg.text) \in {10, 12}
                => ret = arg.text
    /\ pc = "inn_recleaned" => ret = arg.text

C11_Witness ==
    /\ pc = "inn_recleaned"
    /\ Len(ret) = 12

\* C16: the segment tag returned for a raw segment value is one of the six
\* values of valid_tags: the first of them, in their order, contained in the
\* value in upper case, and BTL when none is contained in it.
C16_SegmentTagEnum ==
    pc = "segment_tag_cleaned" =>
        LET upper == IF arg.kind = "text" THEN ToUpper(arg.text) ELSE <<>>
            found == {t \in 1..Len(valid_tags) : Contains(upper, valid_tags[t])}
        IN  /\ ret \in Range(valid_tags)
            /\ ret = IF found = {} THEN valid_tags[1] ELSE valid_tags[SetMin(found)]

\* C17: the description returned is at most 300 characters long, and a
\* cleaned description of at most 300 characters is returned as it is.
C17_DescriptionLength ==
    pc = "description_cleaned" =>
        /\ Len(ret) <= MaxDescription
        /\ arg.kind = "text" /\ Len(CleanText(arg.text)) <= MaxDescription
              => ret = CleanText(arg.text)

\* the four tests of the similarity of two names, stated on sets of words
\* and on the ratio of the matching blocks
EqualNames(name1, name2) == name1 = name2

RatioTest(name1, name2) ==
    5 * SequenceRatio(name1, name2)[1] >= 4 * SequenceRatio(name1, name2)[2]

SubstringTest(name1, name2) ==
    /\ Len(name1) > 5
    /\ Len(name2) > 5
    /\ \/ \E i \in 0..(Len(name2) - Len(name1)) : SubSeq(name2, i + 1, i + Len(name1)) = name1
       \/ \E i \in 0..(Len(name1) - Len(name2)) : SubSeq(name1, i + 1, i + Len(name2)) = name2

JaccardTest(name1, name2) ==
    LET words1 == Range(Split(name1))
        words2 == Range(Split(name2))
    IN  5 * Cardinality(words1 \cap words2) >= 3 * Cardinality(words1 \cup words2)

AnyTest(name1, name2) ==
    \/ EqualNames(name1, name2)
    \/ RatioTest(name1, name2)
    \/ SubstringTest(name1, name2)
    \/ JaccardTest(name1, name2)

\* C19 as stated: _are_names_similar returns true exactly when the names are
\* equal, or their ratio is at least 0.8, or both are longer than 5 and one
\* holds the other, or the Jaccard similarity of their words is at least 0.6.
C19_SimilarIffAnyTest ==
    pc = "compared" => (ret <=> AnyTest(arg[1], arg[2]))

\* C19 as amended: _are_names_similar returns true exactly when both names
\* are non-empty and at least one of the four tests holds.
C19_SimilarIffNonEmptyAndAnyTest ==
    pc = "compared" =>
        (ret <=> arg[1] # <<>> /\ arg[2] # <<>> /\ AnyTest(arg[1], arg[2]))

C19_Witness ==
    /\ pc = "compared"
    /\ ret
    /\ ~EqualNames(arg[1], arg[2])
    /\ ~RatioTest(arg[1], arg[2])
    /\ SubstringTest(arg[1], arg[2])
    /\ ~JaccardTest(arg[1], arg[2])

\* C20: a legal form is removed from a name as a whole word only: X, "form X"
\* and "X form" normalize to what X normalizes to, for every legal form, and
\* a word that holds the letters of a legal form inside it stays as it is.
C20_WholeWordForms ==
    pc = "normalized" =>
        /\ \A name \in PlainNames \cup WordsHoldingForms : arg = name => ret = ToLower(name)
        /\ \A name \in PlainNames : \A f \in 1..Len(legal_forms) :
              \/ arg = legal_forms[f] \o <<" ">> \o name
              \/ arg = ToUpper(legal_forms[f]) \o <<" ">> \o name
              \/ arg = name \o <<" ">> \o legal_forms[f]
              => ret = ToLower(name)

-----------------------------------------------------------------------------
(* The revenue of a normalized record *)

FloatNonNegative(q) == q[1] >= 0

\* C18: the revenue of a record returned by clean_single_company is a
\* non-negative number, whatever the raw revenue was.
C18_RevenueNonNegative ==
    Cleaned /\ result # None => FloatNonNegative(result[1].revenue)

-----------------------------------------------------------------------------
(* main.process_data: clean_companies_data, filter_by_relevance,            *)
(* remove_duplicates, filter_by_revenue.  save_cleaned_data and             *)
(* save_deduplicated_data write a file, catch every exception and leave the *)
(* lists as they are.                                                       *)

\* the float as the number the records of remove_duplicates hold (5.0 == 5);
\* the revenues of the batches below are whole
Whole(q) == q[1] \div q[2]

\* the variant in which a record that raises ends the loop
RECURSIVE CleanCompaniesDataUntilFailure(_)
CleanCompaniesDataUntilFailure(list) ==
    IF list = <<>> \/ NameRaises(Head(list)) THEN <<>>
    ELSE LET cleaned_company == CleanSingleCompanyOf(Head(list))
         IN  (IF cleaned_company # None
              THEN <<[cleaned_company[1] EXCEPT !.revenue = Whole(@)]>>
              ELSE <<>>) \o CleanCompaniesDataUntilFailure(Tail(list))

\* clean_companies_data: for company in companies, append what
\* clean_single_company returns unless it is None
RECURSIVE CleanCompaniesDataOf(_)
CleanCompaniesDataOf(list) ==
    IF list = <<>> THEN <<>>
    ELSE LET cleaned_company == CleanSingleCompanyOf(Head(list))
         IN  (IF cleaned_company # None
              THEN <<[cleaned_company[1] EXCEPT !.revenue = Whole(@)]>>
              ELSE <<>>) \o CleanCompaniesDataOf(Tail(list))

relevant_okved ==
    <<<<"7", "3", ".", "1", "1">>,
      <<"8", "2", ".", "3", "0">>,
      <<"4", "7", ".", "7", "8", ".", "3">>,
      <<"7", "3", ".", "2", "0">>,
      <<"8", "2", ".", "9", "9">>>>

BTL_KEYWORDS ==
    <<<<"b", "t", "l">>,
      <<"p*", "r*", "o*", "m*", "o*">>,
      <<"p*", "r*", "o*", "m*", "o*", "u*", "sh*", "n*">>,
      <<"i*", "v*", "e*", "n*", "t*">>,
      <<"e", "v", "e", "n", "t">>,
      <<"m*", "e*", "r*", "ch*", "e*", "n*", "d*", "a*", "j*", "z*", "i*", "n*", "g*">>,
      <<"m", "e", "r", "c", "h", "a", "n", "d", "i", "s", "i", "n", "g">>,
      <<"b", "r", "a", "n", "d", " ", "a", "c", "t", "i", "v", "a", "t", "i", "o", "n">>,
      <<"a*", "k*", "t*", "i*", "v*", "a*", "c*", "i*", "ya*">>,
      <<"d*", "e*", "g*", "u*", "s*", "t*", "a*", "c*", "i*", "ya*">>,
      <<"s*", "e*", "m*", "p*", "l*", "i*", "n*", "g*">>,
      <<"p*", "r*", "o*", "m*", "o*", "-", "a*", "k*", "c*", "i*", "i*">>,
      <<"t*", "r*", "e*", "j*", "d*", " ", "m*", "a*", "r*", "k*", "e*", "t*", "i*", "n*", "g*">>,
      <<"t", "r", "a", "d", "e", " ", "m", "a", "r", "k", "e", "t", "i", "n", "g">>,
      <<"p", "o", "s", " ", "m*", "a*", "t*", "e*", "r*", "i*", "a*", "l*", "y*">>,
      <<"s*", "t*", "i*", "m*", "u*", "l*", "i*", "r*", "o*", "v*", "a*", "n*", "i*", "e*", " ", "p*", "r*", "o*", "d*", "a*", "zh*">>>>

\* any(p in s for p in patterns)
AnyIn(patterns, s) == \E i \in 1..Len(patterns) : Contains(s, patterns[i])

\* _is_relevant_company
IsRelevantCompany(company) ==
    IF Get(company, "segment_tag", <<>>) \in Range(valid_tags) THEN TRUE
    ELSE IF AnyIn(relevant_okved, Get(company, "okved_main", <<>>)) THEN TRUE
    ELSE LET description == ToLower(Get(company, "description", <<>>) \o <<" ">>
                                        \o Get(company, "name", <<>>))
         IN  AnyIn(BTL_KEYWORDS, description)

\* filter_by_relevance
FilterByRelevanceOf(list) == SelectSeq(list, IsRelevantCompany)

\* the variant that keeps a known revenue only
FilterByRevenueKnownOnly(list) ==
    SelectSeq(list, LAMBDA company : Get(company, "revenue", 0) >= MinRevenue)

\* filter_by_revenue
FilterByRevenueOf(list) ==
    SelectSeq(list, LAMBDA company :
                        LET revenue == Get(company, "revenue", 0)
                        IN  revenue = 0 \/ revenue >= MinRevenue)

\* round(duplicates_removed / original_count * 100, 2), in hundredths
DuplicateRate(duplicates_removed, original_count) ==
    IF original_count > 0
    THEN <<(2 * 10000 * duplicates_removed + original_count) \div (2 * original_count), 100>>
    ELSE Float(0)

\* get_duplicate_statistics
GetDuplicateStatistics(original_count, unique_count) ==
    LET duplicates_removed == original_count - unique_count
    IN  [original_count |-> original_count,
         unique_count |-> unique_count,
         duplicates_removed |-> duplicates_removed,
         duplicate_rate_percent |-> DuplicateRate(duplicates_removed, original_count)]

\* process_data, step 1: cleaner.clean_companies_data(companies)
CleanCompaniesData ==
    /\ pc = "process_data"
    /\ cleaned_companies' = CleanCompaniesDataOf(companies)
    /\ pc' = "cleaned_companies"
    /\ UNCHANGED <<dedupVars, cleanVars, revenueVars, requestVars, callVars,
                   relevant_companies, final_companies, stats>>

\* process_data, step 2: cleaner.filter_by_relevance(cleaned_companies)
FilterByRelevance ==
    /\ pc = "cleaned_companies"
    /\ relevant_companies' = FilterByRelevanceOf(cleaned_companies)
    /\ pc' = "relevant_companies"
    /\ UNCHANGED <<dedupVars, cleanVars, revenueVars, requestVars, callVars,
                   cleaned_companies, final_companies, stats>>

\* process_data, step 3: dedup_handler.remove_duplicates(relevant_companies)
ProcessRemoveDuplicates ==
    /\ pc = "relevant_companies"
    /\ inn_groups' = GroupByInn(relevant_companies)
    /\ name_groups' = GroupBySimilarity(NoInnCompanies(relevant_companies))
    /\ unique_companies' = RemoveDuplicatesOf(relevant_companies)
    /\ pc' = "unique_companies"
    /\ UNCHANGED <<companies, cleanVars, revenueVars, requestVars, callVars, pipelineVars>>

\* process_data, step 4 and the return: filter_by_revenue(unique_companies),
\* then the statistics, which are logged
ProcessFilterByRevenue ==
    /\ pc = "unique_companies"
    /\ final_companies' = FilterByRevenueOf(unique_companies)
    /\ stats' = GetDuplicateStatistics(Len(relevant_companies), Len(unique_companies))
    /\ pc' = "processed"
    /\ UNCHANGED <<dedupVars, cleanVars, revenueVars, requestVars, callVars,
                   cleaned_companies, relevant_companies>>

\* filter_by_revenue called on a list of its own
FilterByRevenue ==
    /\ pc = "filter_by_revenue"
    /\ final_companies' = FilterByRevenueOf(unique_companies)
    /\ pc' = "revenue_filtered"
    /\ UNCHANGED <<dedupVars, cleanVars, revenueVars, requestVars, callVars,
                   cleaned_companies, relevant_companies, stats>>

-----------------------------------------------------------------------------
(* The batches given to process_data and the lists given to filter_by_revenue *)

btl == <<"b", "t", "l">>
EventAgency == <<"E", "v", "e", "n", "t", " ", "a", "g", "e", "n", "c", "y">>

\* kept to the end, with a tax id
RawKreonInn ==
    [name |-> PyText(OooKreon), inn |-> PyText(Inn1), revenue |-> PyNumber(500000000),
     segment_tag |-> PyText(btl)]
\* kept to the end: no segment, relevant by its description
RawKreonDescribed == [name |-> PyText(Kreon), description |-> PyText(DescLong)]
\* merged with the record before by its name
RawKreonEvent ==
    [name |-> PyText(Kreon), revenue |-> PyNumber(200000000), segment_tag |-> PyText(EventAgency)]
\* rejected by _is_valid_company
RawOazisSmall == [name |-> PyText(Oazis), revenue |-> PyNumber(1), segment_tag |-> PyText(btl)]
\* rejected for its missing name
RawNameless == [revenue |-> PyNumber(500000000), segment_tag |-> PyText(btl)]
\* raises in _clean_company_name
RawNumberName == [name |-> PyNumber(123), segment_tag |-> PyText(btl)]
\* normalized, and dropped by filter_by_relevance
RawOazisIrrelevant == [name |-> PyText(Oazis), revenue |-> PyNumber(500000000)]
\* relevant by its name, dropped by filter_by_revenue
RawMirPromoNegative == [name |-> PyText(MirPromo), revenue |-> PyNumber(-5)]

BatchRecords ==
    {RawKreonInn, RawKreonDescribed, RawKreonEvent, RawOazisSmall, RawNameless,
     RawNumberName, RawOazisIrrelevant, RawMirPromoNegative}

\* the longest batch
MaxBatch == 3

GateRevenues == {0, 1, 199999999, 200000000, 500000000, -5}

GateRecords ==
    {[name |-> Kreon]} \cup {[name |-> Kreon, revenue |-> r] : r \in GateRevenues}

InitProcess ==
    /\ \/ /\ pc = "process_data"
          /\ companies \in Lists(BatchRecords, MaxBatch)
          /\ unique_companies = <<>>
       \/ /\ pc = "filter_by_revenue"
          /\ companies = <<>>
          /\ unique_companies \in Lists(GateRecords, MaxBatch)
    /\ inn_groups = <<>>
    /\ name_groups = <<>>
    /\ raw = <<>>
    /\ cleaned = <<>>
    /\ result = <<>>
    /\ revenue_in = <<>>
    /\ revenue_out = <<>>
    /\ NoCall
    /\ NoPipeline
    /\ NoRequest

NextProcess ==
    \/ CleanCompaniesData
    \/ FilterByRelevance
    \/ ProcessRemoveDuplicates
    \/ ProcessFilterByRevenue
    \/ FilterByRevenue

SpecProcess == InitProcess /\ [][NextProcess]_vars

-----------------------------------------------------------------------------
(* Properties of process_data and its stages *)

\* the j-th smallest member of a set of indices
Nth(S, j) == CHOOSE i \in S : Cardinality({k \in S : k < i}) = j - 1

\* out holds the members of list at the indices of kept, in their order
IsSubsequenceAt(out, list, kept) ==
    /\ Len(out) = Cardinality(kept)
    /\ \A j \in 1..Len(out) : out[j] = list[Nth(kept, j)]

RevenueOf(company) == IF "revenue" \in DOMAIN company THEN company.revenue ELSE 0

PassesRevenue(company) ==
    RevenueOf(company) = 0 \/ ~(RevenueOf(company) < MinRevenue)

\* C12: filter_by_revenue returns, in input order, exactly the records whose
\* revenue is 0 or at least min_revenue, and every record process_data
\* returns has a revenue of 0 or of at least min_revenue.
C12_RevenueFilter ==
    pc \in {"revenue_filtered", "processed"} =>
        /\ IsSubsequenceAt(final_companies, unique_companies,
                           {i \in 1..Len(unique_companies) :
                               PassesRevenue(unique_companies[i])})
        /\ \A j \in 1..Len(final_companies) : PassesRevenue(final_companies[j])

\* a record of revenue 0 and one of min_revenue kept around a dropped one
C12_Witness ==
    /\ pc = "revenue_filtered"
    /\ Len(unique_companies) = 3
    /\ RevenueOf(unique_companies[1]) = 0
    /\ RevenueOf(unique_companies[2]) = MinRevenue - 1
    /\ RevenueOf(unique_companies[3]) = MinRevenue
    /\ final_companies = <<unique_companies[1], unique_companies[3]>>

\* C13: the statistics of a run of process_data count every removed record:
\* the input count is the number of raw records, the output count the number
\* of returned records, the removed count their difference.
C13_EveryRemovalCounted ==
    pc = "processed" =>
        /\ stats.original_count = Len(companies)
        /\ stats.unique_count = Len(final_companies)
        /\ stats.duplicates_removed = Len(companies) - Len(final_companies)

Normalizes(company) ==
    /\ ~NameRaises(company)
    /\ CleanedDict(company).name # <<>>
    /\ IsValidCompany(CleanedDict(company))

CleanedBatch ==
    pc \in {"cleaned_companies", "relevant_companies", "unique_companies", "processed"}

\* C15: clean_companies_data returns, in input order, exactly the normalized
\* records of the raw records whose normalization succeeded and passed the
\* validity gate, whether or not a record of the batch failed.
C15_BatchNeverAborts ==
    CleanedBatch =>
        LET kept == {i \in 1..Len(companies) : Normalizes(companies[i])}
        IN  /\ Len(cleaned_companies) = Cardinality(kept)
            /\ \A j \in 1..Len(cleaned_companies) :
                  LET normalized == CleanedDict(companies[Nth(kept, j)])
                  IN  cleaned_companies[j] =
                          [normalized EXCEPT !.revenue = Whole(normalized.revenue)]

\* a record that raises between two records that are kept
C15_Witness ==
    /\ pc = "cleaned_companies"
    /\ Len(companies) = 3
    /\ NameRaises(companies[2])
    /\ Len(cleaned_companies) = 2

-----------------------------------------------------------------------------
(* remove_duplicates on records with missing, empty and None fields *)

MalformedRecords ==
    {<<>>,
     [name |-> Kreon],
     [inn |-> Inn1],
     [name |-> OooKreon, inn |-> <<>>, revenue |-> 0, source |-> <<>>, description |-> <<>>],
     [name |-> Kreon, inn |-> NoneInn],
     [name |-> Kreon, inn |-> <<" ">>],
     [name |-> Oazis, inn |-> Inn1, revenue |-> 500000000]}

InitMalformed ==
    /\ pc = "remove_duplicates"
    /\ companies \in Lists(MalformedRecords, MaxCompanies)
    /\ inn_groups = <<>>
    /\ name_groups = <<>>
    /\ unique_companies = <<>>
    /\ raw = <<>>
    /\ cleaned = <<>>
    /\ result = <<>>
    /\ revenue_in = <<>>
    /\ revenue_out = <<>>
    /\ NoCall
    /\ NoPipeline
    /\ NoRequest

NextMalformed == RemoveDuplicates

SpecMalformed == InitMalformed /\ [][NextMalformed]_vars

\* C14: remove_duplicates returns a list, and does not raise, for records
\* whose fields are missing, empty or None.
C14_NeverRaises == pc # "raised"

-----------------------------------------------------------------------------
(* Properties of _select_base_company, stated on the state after the call *)

\* the ranking table of the canonical source tokens
SourceRanking ==
    <<list_org, rusprofile, rrar_2025, marketing_tech, fns_open_data>>

\* the rank of a source in the table, 0 for a source outside it
RankOf(source) ==
    Cardinality({r \in 1..Len(SourceRanking) :
                    \E q \in r..Len(SourceRanking) : SourceRanking[q] = source})

\* 1 for a field with a non-empty, non-zero value and 0 for any other
Filled(company, key) ==
    IF key \notin DOMAIN company THEN 0
    ELSE IF key \in {"revenue", "revenue_year", "employees"}
         THEN (IF company[key] = 0 THEN 0 ELSE 1)
    ELSE IF company[key] = <<>> THEN 0
    ELSE 1

\* the score as the sum of its four terms
Score(company) ==
    Filled(company, "name") + Filled(company, "inn") + Filled(company, "revenue")
    + Filled(company, "revenue_year") + Filled(company, "source")
    + Filled(company, "employees") + Filled(company, "description")
    + Filled(company, "region")
    + RankOf(IF "source" \in DOMAIN company THEN company.source ELSE <<>>)
    + 10 * (IF "revenue" \in DOMAIN company /\ company.revenue > 0 THEN 1 ELSE 0)
    + 5 * Filled(company, "inn")

\* C21: the base record chosen for a group of two or more records has the
\* largest score of the group (filled fields + source rank + 10 for a
\* positive revenue + 5 for a tax id), and among the members of the largest
\* score it is the earliest
C21_BaseMaximizesScore ==
    pc = "base_selected" =>
        \E i \in 1..Len(arg) :
            /\ ret = arg[i]
            /\ \A j \in 1..Len(arg) : Score(arg[j]) <= Score(arg[i])
            /\ \A j \in 1..(i - 1) : Score(arg[j]) < Score(arg[i])

\* a group of three whose second and third members tie for the largest
\* score and differ: the second is the base
C21_Witness ==
    /\ pc = "base_selected"
    /\ Len(arg) = 3
    /\ Score(arg[2]) = Score(arg[3])
    /\ Score(arg[1]) < Score(arg[2])
    /\ arg[2] # arg[3]
    /\ ret = arg[2]

-----------------------------------------------------------------------------
(* Properties of _group_by_similarity, stated on the state after             *)
(* remove_duplicates                                                         *)

\* the tax-id-less records of the input, in input order
TaxIdLess == SelectSeq(companies, LAMBDA company : InnOf(company) = <<>>)

\* the anchor similar to the company, in the direction the code compares
SimilarRecords(anchor, company) ==
    Similar(ComparisonName(anchor), ComparisonName(company))

\* for each of the first j records of the list, the position of the anchor of
\* its group: a record is its own anchor iff it is similar to no anchor that
\* precedes it, and otherwise its anchor is the earliest preceding anchor
\* that it is similar to
RECURSIVE AnchorsUpTo(_, _)
AnchorsUpTo(list, j) ==
    IF j = 0 THEN <<>>
    ELSE LET before == AnchorsUpTo(list, j - 1)
             similar == {a \in 1..(j - 1) :
                            before[a] = a /\ SimilarRecords(list[a], list[j])}
         IN  Append(before, IF similar = {} THEN j ELSE SetMin(similar))

\* the groups that the anchors give: one per anchor, in the order of the
\* anchors, each holding its records in input order
GroupsOfAnchors(list, anchor_of) ==
    LET anchors == {a \in 1..Len(list) : anchor_of[a] = a}
    IN  [g \in 1..Cardinality(anchors) |->
            LET members == {j \in 1..Len(list) : anchor_of[j] = Nth(anchors, g)}
            IN  [k \in 1..Cardinality(members) |-> list[Nth(members, k)]]]

\* C22: the fuzzy groups are those of one greedy pass in input order: one
\* group per anchor, in the order of the anchors; a record is an anchor iff
\* it is similar to no anchor before it and joins the earliest anchor before
\* it that it is similar to; a group starts with its anchor, lists its
\* members in input order, and every other member is similar to the anchor
C22_GreedyAnchorGroups ==
    Returned =>
        /\ name_groups = GroupsOfAnchors(TaxIdLess, AnchorsUpTo(TaxIdLess, Len(TaxIdLess)))
        /\ \A g \in 1..Len(name_groups) :
              \A k \in 2..Len(name_groups[g]) :
                  SimilarRecords(name_groups[g][1], name_groups[g][k])

\* three tax-id-less records: the first two are anchors, the third is
\* similar to both and is in the group of the first
C22_Witness ==
    /\ Returned
    /\ Len(TaxIdLess) = 3
    /\ AnchorsUpTo(TaxIdLess, 3) = <<1, 2, 1>>
    /\ SimilarRecords(TaxIdLess[1], TaxIdLess[3])
    /\ SimilarRecords(TaxIdLess[2], TaxIdLess[3])
    /\ name_groups = <<<<TaxIdLess[1], TaxIdLess[3]>>, <<TaxIdLess[2]>>>>

-----------------------------------------------------------------------------
(* Properties of _merge_company_group, stated on the state after the call *)

\* the fields of a record other than revenue, employees, description, source
KeptFields == {"name", "inn", "revenue_year", "region"}

\* the value held under key is empty
IsEmpty(key, value) == IF key = "revenue_year" THEN value = 0 ELSE value = <<>>

\* the base of a group: the earliest member of the largest score
BaseOf(group) ==
    group[SetMin({i \in Indices(group) :
                    \A j \in Indices(group) : Score(group[j]) <= Score(group[i])})]

\* the members folded into the base, in group order
FoldedInto(group) == SelectSeq(group, LAMBDA company : company # BaseOf(group))

\* the folded members whose value under key is non-empty, in group order
Holding(group, key) ==
    SelectSeq(FoldedInto(group), LAMBDA company : ~IsEmpty(key, company[key]))

Merged == pc = "group_merged"

\* C23 as stated: a non-empty base value of a field other than revenue,
\* employees, description and source is the merged value, and a field that
\* is empty in the base takes the value of the first folded member
C23_EmptyTakesFirstFolded ==
    (Merged /\ FoldedInto(arg) # <<>>) =>
        \A key \in KeptFields :
            IF ~IsEmpty(key, BaseOf(arg)[key])
            THEN ret[key] = BaseOf(arg)[key]
            ELSE ret[key] = FoldedInto(arg)[1][key]

\* C23 amended: a non-empty base value of such a field is the merged value
\* whatever the other members hold, also when the revenue comes from another
\* member; a field that is empty in the base takes the value of the first
\* folded member that holds a non-empty one, and stays empty if none does
C23_EmptyTakesFirstNonEmpty ==
    Merged =>
        \A key \in KeptFields :
            IF ~IsEmpty(key, BaseOf(arg)[key])
            THEN ret[key] = BaseOf(arg)[key]
            ELSE IF Holding(arg, key) # <<>>
                 THEN ret[key] = Holding(arg, key)[1][key]
            ELSE IsEmpty(key, ret[key])

\* a group of three: the revenue of the merged record is that of a folded
\* member while its revenue_year is the base's, and the region, empty in the
\* base and in the first folded member, is that of the second folded member
C23_Witness ==
    /\ Merged
    /\ Len(FoldedInto(arg)) = 2
    /\ ret.revenue # BaseOf(arg).revenue
    /\ ret.revenue_year = BaseOf(arg).revenue_year
    /\ \E m \in Indices(arg) :
          /\ arg[m].revenue = ret.revenue
          /\ arg[m].revenue_year # ret.revenue_year
    /\ BaseOf(arg).region = <<>>
    /\ FoldedInto(arg)[1].region = <<>>
    /\ ret.region = FoldedInto(arg)[2].region
    /\ ret.region # <<>>

-----------------------------------------------------------------------------
(* Properties of the groups of remove_duplicates on such records *)

\* the members of all the groups, one group after the other
RECURSIVE Flatten(_)
Flatten(groups) ==
    IF groups = <<>> THEN <<>> ELSE Head(groups) \o Flatten(Tail(groups))

\* how many times a record occurs in a list
Occurrences(list, company) ==
    Cardinality({i \in Indices(list) : list[i] = company})

\* C24: the groups partition the input: every input record is a member of
\* exactly one group, an exact group if its tax id is non-empty and a fuzzy
\* group otherwise, so that the output holds one record per group and no
\* input record is lost or used twice, whatever its tax id
C24_GroupsPartitionInput ==
    Returned =>
        /\ Len(Flatten(GroupsInOrder)) = Len(companies)
        /\ \A i \in Indices(companies) :
              /\ Occurrences(Flatten(GroupsInOrder), companies[i])
                    = Occurrences(companies, companies[i])
              /\ IF InnOf(companies[i]) # <<>>
                 THEN Occurrences(Flatten(name_groups), companies[i]) = 0
                 ELSE Occurrences(Flatten(InnGroupsOf(inn_groups)), companies[i]) = 0
        /\ Len(unique_companies) = Len(GroupsInOrder)

-----------------------------------------------------------------------------
(* Properties of remove_duplicates as a step *)

\* C25: remove_duplicates does not modify its input: after the call the
\* input list holds the same records in the same order, every field of
\* every record as before, the bases of the merged groups included
C25_InputUnchanged == [][pc = "remove_duplicates" => companies' = companies]_vars

\* a group of two or more was merged into a record that differs from its
\* base in the source and in the revenue, and the base is in the input
C25_Witness ==
    /\ Returned
    /\ \E g \in Indices(GroupsInOrder) :
          LET group == GroupsInOrder[g]
          IN  /\ Len(group) >= 2
              /\ unique_companies[g].source # BaseOf(group).source
              /\ unique_companies[g].revenue # BaseOf(group).revenue
              /\ \E i \in Indices(companies) : companies[i] = BaseOf(group)

-----------------------------------------------------------------------------
(* remove_duplicates applied to the list that remove_duplicates returned *)

\* the second call: its input is the output of the first
RemoveDuplicatesAgain ==
    /\ pc = "returned"
    /\ inn_groups' = GroupByInn(unique_companies)
    /\ name_groups' = GroupBySimilarity(NoInnCompanies(unique_companies))
    /\ unique_companies' = RemoveDuplicatesOf(unique_companies)
    /\ companies' = CompaniesAfter(unique_companies,
                         InnGroupsOf(inn_groups') \o name_groups',
                         unique_companies', 1)
    /\ pc' = "returned_again"
    /\ UNCHANGED <<cleanVars, revenueVars, requestVars, callVars, pipelineVars>>

\* records shaped as the cleaner produces them: three tax-id-less records
\* whose names form a chain, the middle name on the fullest record, and two
\* records of one tax id
RepeatedRecords ==
    {Company(MirPromo, <<>>, 300000000, 2024, rusprofile, 0, DescShort, Kazan),
     Company(MirPromoGrupp, <<>>, 500000000, 2024, marketing_tech, 120, DescLong, Moskva),
     Company(PromoGrupp, <<>>, 500000000, 2022, marketing_tech, 50, <<>>, Moskva),
     Company(Kreon, Inn1, 0, 2024, rrar_2025, 120, <<>>, Moskva),
     Company(OooKreon, Inn1, 500000000, 2023, list_org, 0, <<>>, <<>>)}

InitRepeated ==
    /\ pc = "remove_duplicates"
    /\ companies \in Lists(RepeatedRecords, MaxCompanies)
    /\ inn_groups = <<>>
    /\ name_groups = <<>>
    /\ unique_companies = <<>>
    /\ raw = <<>>
    /\ cleaned = <<>>
    /\ result = <<>>
    /\ revenue_in = <<>>
    /\ revenue_out = <<>>
    /\ NoCall
    /\ NoPipeline
    /\ NoRequest

NextRepeated ==
    \/ RemoveDuplicates
    \/ RemoveDuplicatesAgain

SpecRepeated == InitRepeated /\ [][NextRepeated]_vars

\* C26: remove_duplicates is idempotent: applied to its own output it
\* returns the same records, as many as it was given, and merges no two of
\* them
C26_Idempotent ==
    pc = "returned_again" =>
        /\ Len(unique_companies) = Len(companies)
        /\ unique_companies = companies
        /\ \A g \in Indices(GroupsInOrder) : Len(GroupsInOrder[g]) = 1

-----------------------------------------------------------------------------
(* Properties of the merge inside process_data *)

\* the raw revenue of a record of the batch is absent, None or not negative
RawRevenueNonNegative(company) ==
    \/ "revenue" \notin DOMAIN company
    \/ company.revenue.kind # "number"
    \/ company.revenue.number >= 0

\* C27: a record merged from members that all pass the revenue gate
\* (revenue 0 or at least min_revenue) passes it too; hence, for a batch of
\* raw records of non-negative revenue, the final filter_by_revenue of
\* process_data removes no record that remove_duplicates returned
C27_MergeKeepsRevenueGate ==
    pc \in {"unique_companies", "processed"} =>
        /\ \A g \in Indices(GroupsInOrder) :
              (\A m \in Indices(GroupsInOrder[g]) : PassesRevenue(GroupsInOrder[g][m]))
                  => PassesRevenue(unique_companies[g])
        /\ (pc = "processed"
              /\ \A i \in Indices(companies) : RawRevenueNonNegative(companies[i]))
                 => final_companies = unique_companies

\* a batch of non-negative revenues in which a record of revenue 0 and a
\* record of min_revenue were merged, and the merged record is returned
C27_Witness ==
    /\ pc = "processed"
    /\ \A i \in Indices(companies) : RawRevenueNonNegative(companies[i])
    /\ \E g \in Indices(GroupsInOrder) :
          /\ Len(GroupsInOrder[g]) = 2
          /\ RevenueOf(GroupsInOrder[g][1]) = 0
          /\ RevenueOf(GroupsInOrder[g][2]) = MinRevenue
          /\ RevenueOf(unique_companies[g]) = MinRevenue
          /\ \E j \in Indices(final_companies) : final_companies[j] = unique_companies[g]

-----------------------------------------------------------------------------
(* Properties of _clean_company_name, stated on the states after the calls *)

\* the text begins with the legal form, in any case, and goes on after it
BeginsWithForm(name, form) ==
    /\ Len(name) > Len(form)
    /\ ToLower(SubSeq(name, 1, Len(form))) = ToLower(form)

\* C28: company-name cleaning is idempotent and complete: the cleaned name,
\* cleaned again, comes back unchanged, and a cleaned name does not begin
\* with one of the legal forms followed by the rest of the name
C28_NameCleaningIdempotent ==
    /\ pc = "name_recleaned" => ret = arg
    /\ pc = "name_cleaned" =>
          \A f \in 1..Len(name_legal_forms) : ~BeginsWithForm(ret, name_legal_forms[f])

-----------------------------------------------------------------------------
(* Properties of filter_by_relevance inside process_data *)

\* the six values of the segment enum
SegmentEnum ==
    {<<"B", "T", "L">>, <<"S", "O", "U", "V", "E", "N", "I", "R">>,
     <<"F", "U", "L", "L", "_", "C", "Y", "C", "L", "E">>,
     <<"C", "O", "M", "M", "_", "G", "R", "O", "U", "P">>,
     <<"E", "V", "E", "N", "T">>, <<"P", "R", "O", "M", "O">>}

\* the text held under key, empty when the key is absent
TextOf(company, key) == IF key \in DOMAIN company THEN company[key] ELSE <<>>

\* the three heuristics of the relevance filter
IsRelevant(company) ==
    \/ TextOf(company, "segment_tag") \in SegmentEnum
    \/ \E c \in 1..Len(relevant_okved) :
          Contains(TextOf(company, "okved_main"), relevant_okved[c])
    \/ \E k \in 1..Len(BTL_KEYWORDS) :
          Contains(ToLower(TextOf(company, "description") \o <<" ">>
                              \o TextOf(company, "name")),
                   BTL_KEYWORDS[k])

\* C29: filter_by_relevance returns, in input order, exactly the records
\* whose segment_tag is an enum value, or whose industry code contains a
\* relevant code, or whose lowercased description plus name contains a
\* keyword; every record that the normalizer produced passes the filter
C29_NormalizedRecordsRelevant ==
    pc \in {"relevant_companies", "unique_companies", "processed"} =>
        /\ IsSubsequenceAt(relevant_companies, cleaned_companies,
                           {i \in Indices(cleaned_companies) :
                               IsRelevant(cleaned_companies[i])})
        /\ relevant_companies = cleaned_companies

-----------------------------------------------------------------------------
(* helpers.safe_request.  The calls of time.sleep and the print of the last *)
(* failure change no variable.                                              *)

Response(status) == [kind |-> "response", status_code |-> status]

\* requests.get raises a requests.RequestException (a timeout, a refused
\* connection)
RequestException == [kind |-> "exception", status_code |-> 0]

\* what one call of requests.get can give
Outcomes == {Response(status) : status \in {200, 204, 404, 429, 500}} \cup {RequestException}

\* the variant range(max_retries + 1)
InRangeInclusive(i, max_retries) == i <= max_retries

\* for attempt in range(max_retries)
InRange(i, max_retries) == i < max_retries

\* response.raise_for_status() raises an HTTPError, a RequestException
RaiseForStatusRaises(status) == status >= 400 /\ status < 600

\* time.sleep(...); response = requests.get(url, headers=headers, timeout=timeout)
RequestsGet(outcome) ==
    /\ pc = "safe_request"
    /\ InRange(attempt, arg.max_retries)
    /\ responses' = Append(responses, outcome)
    /\ UNCHANGED <<arg, dedupVars, cleanVars, revenueVars, pipelineVars>>

\* the next iteration of the loop
NextAttempt ==
    /\ attempt' = attempt + 1
    /\ UNCHANGED <<pc, ret>>

\* except requests.RequestException: return None after the last attempt,
\* sleep and go on after any other
HandleRequestException ==
    IF attempt = arg.max_retries - 1
    THEN /\ ret' = None
         /\ pc' = "returned"
         /\ UNCHANGED attempt
    ELSE NextAttempt

\* response.status_code == 200: return response
RequestOk ==
    /\ RequestsGet(Response(200))
    /\ ret' = Some(Response(200))
    /\ pc' = "returned"
    /\ UNCHANGED attempt

\* response.status_code == 429: sleep
RequestTooMany ==
    /\ RequestsGet(Response(429))
    /\ NextAttempt

\* any other status: response.raise_for_status()
RequestOtherStatus ==
    \E outcome \in Outcomes :
        /\ outcome.kind = "response"
        /\ outcome.status_code \notin {200, 429}
        /\ RequestsGet(outcome)
        /\ IF RaiseForStatusRaises(outcome.status_code)
           THEN HandleRequestException
           ELSE NextAttempt

\* requests.get raises
RequestRaises ==
    /\ RequestsGet(RequestException)
    /\ HandleRequestException

\* the loop is over: return None
RetriesExhausted ==
    /\ pc = "safe_request"
    /\ ~InRange(attempt, arg.max_retries)
    /\ ret' = None
    /\ pc' = "returned"
    /\ UNCHANGED <<arg, attempt, responses, dedupVars, cleanVars, revenueVars, pipelineVars>>

\* the largest max_retries
MaxRetries == 3

InitRequest ==
    /\ pc = "safe_request"
    /\ arg \in [max_retries : 0..MaxRetries]
    /\ ret = <<>>
    /\ attempt = 0
    /\ responses = <<>>
    /\ companies = <<>>
    /\ inn_groups = <<>>
    /\ name_groups = <<>>
    /\ unique_companies = <<>>
    /\ raw = <<>>
    /\ cleaned = <<>>
    /\ result = <<>>
    /\ revenue_in = <<>>
    /\ revenue_out = <<>>
    /\ NoPipeline

NextRequest ==
    \/ RequestOk
    \/ RequestTooMany
    \/ RequestOtherStatus
    \/ RequestRaises
    \/ RetriesExhausted

SpecRequest == InitRequest /\ [][NextRequest]_vars

\* the function runs on until it returns: every sleep ends, and requests.get
\* answers or raises within its timeout
SpecRequestFair == SpecRequest /\ WF_vars(NextRequest)

-----------------------------------------------------------------------------
(* Properties of safe_request *)

IsOk(outcome) == outcome.kind = "response" /\ outcome.status_code = 200

\* the attempts made so far are at most max_retries, none was made after a
\* status of 200, and what is returned is the response of status 200 if an
\* attempt gave one and None after max_retries attempts if none did
SafeRequestSafe ==
    /\ pc \in {"safe_request", "returned"}
    /\ Len(responses) <= arg.max_retries
    /\ \A k \in 1..(Len(responses) - 1) : ~IsOk(responses[k])
    /\ pc = "returned" =>
          IF \E k \in 1..Len(responses) : IsOk(responses[k])
          THEN ret = Some(responses[Len(responses)])
          ELSE ret = None /\ Len(responses) = arg.max_retries

\* C30: safe_request makes at most max_retries attempts and always
\* terminates; it returns the response of the first attempt of status 200
\* and makes no attempt after it; it returns None, and raises nothing, when
\* none of the max_retries attempts gives status 200, be it by an exception,
\* by status 429 or by another status
C30_SafeRequestTerminates == []SafeRequestSafe /\ <>(pc = "returned")

\* an exception, then status 429, then status 200 at the third and last
\* attempt, whose response is returned
C30_Witness ==
    /\ pc = "returned"
    /\ arg.max_retries = 3
    /\ responses = <<RequestException, Response(429), Response(200)>>
    /\ ret = Some(Response(200))

=============================================================================
